--------------------------- MODULE EnvSchedProofs ---------------------------
(***************************************************************************)
(* Theorems about EnvSched, for every number of slots, ASIDs, priorities    *)
(* and bound on envids.                                                     *)
(*                                                                         *)
(* The invariant StructInv needs nothing of user code: it holds for every   *)
(* Discipline, also while the links of the run queue are corrupt.           *)
(* BlockingInv needs all three rules.  RunInv, about the run queue, comes   *)
(* last.                                                                    *)
(***************************************************************************)
EXTENDS EnvSched, FiniteSetTheorems, TLAPS

\* Environments that have been given a priority.
Ranked == {e \in Env : env_pri[e] >= 1}

\* Every forward pointer of the queue leads to a ranked environment, linked in
\* truth or stale.
PointersIn(q, S) == /\ q.tqh_first \in S \cup {NULL}
                    /\ \A e \in Env : q.tqe_next[e] \in S \cup {NULL}

CurenvLive == halted = "no" /\ curenv # NULL => env_status[curenv] # "ENV_FREE"
LiveRanked == \A e \in Env : env_status[e] # "ENV_FREE" => env_pri[e] >= 1

StructInv == /\ KernelTypeOK
             /\ FreeListExact
             /\ CurenvLive
             /\ LiveRanked
             /\ PointersIn(env_sched_list, Ranked)

-----------------------------------------------------------------------------
(* Sequences used as stacks.                                               *)

\* Pushing onto a list.
LEMMA PushFacts ==
    ASSUME NEW S, NEW s \in Seq(S), NEW e \in S
    PROVE  /\ <<e>> \o s \in Seq(S)
           /\ Len(<<e>> \o s) = Len(s) + 1
           /\ (<<e>> \o s)[1] = e
           /\ \A i \in 2..Len(s) + 1 : (<<e>> \o s)[i] = s[i - 1]
  OBVIOUS

\* Popping from it.
LEMMA PopFacts ==
    ASSUME NEW S, NEW s \in Seq(S), s # <<>>
    PROVE  /\ Head(s) \in S /\ Head(s) = s[1]
           /\ Tail(s) \in Seq(S)
           /\ Len(s) \in Nat \ {0}
           /\ Len(Tail(s)) = Len(s) - 1
           /\ \A i \in 1..Len(Tail(s)) : Tail(s)[i] = s[i + 1]
  OBVIOUS

-----------------------------------------------------------------------------
(* The queue's operators keep its fields in their types, and introduce no  *)
(* forward pointer but the element they insert.                            *)

LEMMA StoreType ==
    ASSUME NEW q \in TailqType, NEW addr, NEW v \in Env \cup {NULL},
           NEW S, PointersIn(q, S), v \in S \cup {NULL}
    PROVE  Store(q, addr, v) \in TailqType /\ PointersIn(Store(q, addr, v), S)
  BY DEF Store, TailqType, PointersIn

LEMMA InsertTailType ==
    ASSUME NEW q \in TailqType, NEW e \in Env,
           NEW S, PointersIn(q, S), e \in S
    PROVE  /\ TAILQ_INSERT_TAIL(q, e) \in TailqType
           /\ PointersIn(TAILQ_INSERT_TAIL(q, e), S)
<1> DEFINE linked == [q EXCEPT !.tqe_next[e] = NULL, !.tqe_prev[e] = q.tqh_last]
<1>1. linked \in TailqType /\ PointersIn(linked, S)
  BY DEF TailqType, PointersIn
<1> DEFINE stored == Store(linked, q.tqh_last, e)
<1>2. stored \in TailqType /\ PointersIn(stored, S)
  <2> HIDE DEF linked
  <2> QED BY <1>1, StoreType
<1>3. [stored EXCEPT !.tqh_last = e] \in TailqType
  <2> HIDE DEF stored
  <2> QED BY <1>2 DEF TailqType
<1>4. PointersIn([stored EXCEPT !.tqh_last = e], S)
  <2> HIDE DEF stored
  <2> QED BY <1>2 DEF TailqType, PointersIn
<1> QED BY <1>3, <1>4 DEF TAILQ_INSERT_TAIL

LEMMA InsertHeadType ==
    ASSUME NEW q \in TailqType, NEW e \in Env,
           NEW S, PointersIn(q, S), e \in S
    PROVE  /\ TAILQ_INSERT_HEAD(q, e) \in TailqType
           /\ PointersIn(TAILQ_INSERT_HEAD(q, e), S)
<1> DEFINE linked == IF q.tqh_first # NULL
                       THEN [q EXCEPT !.tqe_prev[q.tqh_first] = e]
                       ELSE [q EXCEPT !.tqh_last = e]
<1>1. linked \in TailqType /\ PointersIn(linked, S)
  BY DEF TailqType, PointersIn
<1>2. [linked EXCEPT !.tqe_next[e] = q.tqh_first, !.tqh_first = e,
                     !.tqe_prev[e] = HEAD] \in TailqType
  <2> HIDE DEF linked
  <2> QED BY <1>1 DEF TailqType
<1>3. PointersIn([linked EXCEPT !.tqe_next[e] = q.tqh_first, !.tqh_first = e,
                                !.tqe_prev[e] = HEAD], S)
  <2> HIDE DEF linked
  <2> QED BY <1>1 DEF TailqType, PointersIn
<1> QED BY <1>2, <1>3 DEF TAILQ_INSERT_HEAD

LEMMA RemoveType ==
    ASSUME NEW q \in TailqType, NEW e \in Env, NEW S, PointersIn(q, S)
    PROVE  TAILQ_REMOVE(q, e) \in TailqType /\ PointersIn(TAILQ_REMOVE(q, e), S)
<1> DEFINE next == q.tqe_next[e]
           prev == q.tqe_prev[e]
           back == IF next # NULL THEN [q EXCEPT !.tqe_prev[next] = prev]
                                  ELSE [q EXCEPT !.tqh_last = prev]
<1>1. back \in TailqType /\ PointersIn(back, S)
  BY DEF TailqType, PointersIn
<1>2. next \in Env \cup {NULL} /\ next \in S \cup {NULL}
  BY DEF TailqType, PointersIn
<1>3. Store(back, prev, next) \in TailqType /\ PointersIn(Store(back, prev, next), S)
  <2> HIDE DEF back, next, prev
  <2> QED BY <1>1, <1>2, StoreType
<1> QED BY <1>3 DEF TAILQ_REMOVE

-----------------------------------------------------------------------------
(* schedule(), called with statuses, queue and current environment that are *)
(* well formed, leaves them so, and returns to a runnable environment.      *)

LEMMA ScheduleFacts ==
    ASSUME StructInv, halted = "no", NEW yield \in BOOLEAN,
           NEW status \in [Env -> Statuses],
           NEW queue \in TailqType, PointersIn(queue, Ranked),
           NEW e \in Env \cup {NULL},
           e # NULL /\ status[e] = "ENV_RUNNABLE" => env_pri[e] >= 1,
           schedule(yield, status, queue, e)
    PROVE  /\ env_sched_list' \in TailqType
           /\ PointersIn(env_sched_list', Ranked)
           /\ curenv' \in Env \cup {NULL}
           /\ count' \in Nat
           /\ halted' \in {"no"} \cup Panics
           /\ halted' = "no" => curenv' \in Env /\ status[curenv'] = "ENV_RUNNABLE"
<1> DEFINE runnable == e # NULL /\ status[e] = "ENV_RUNNABLE"
           removed  == IF e = NULL THEN queue ELSE TAILQ_REMOVE(queue, e)
           requeued == IF runnable THEN TAILQ_INSERT_TAIL(removed, e) ELSE removed
           next     == TAILQ_FIRST(requeued)
<1>1. removed \in TailqType /\ PointersIn(removed, Ranked)
  BY RemoveType
<1>2. requeued \in TailqType /\ PointersIn(requeued, Ranked)
  <2>1. CASE runnable
    <3>1. e \in Env /\ e \in Ranked
      BY <2>1 DEF Ranked
    <3> HIDE DEF removed
    <3> QED BY <1>1, <2>1, <3>1, InsertTailType
  <2>2. CASE ~runnable
    BY <1>1, <2>2
  <2> QED BY <2>1, <2>2
<1>3. next \in Ranked \cup {NULL}
  <2> HIDE DEF requeued
  <2> QED BY <1>2 DEF PointersIn, TAILQ_FIRST
<1> HIDE DEF requeued, removed
<1>4. CASE /\ ~yield /\ count > 0 /\ runnable
           /\ count' = count - 1
           /\ env_sched_list' = queue
           /\ env_run(e, status, e)
  <2>1. count' \in Nat
    BY <1>4 DEF StructInv, KernelTypeOK
  <2>2. e \in Env /\ curenv' = e /\ halted' = "no"
    BY <1>4 DEF env_run
  <2> QED BY <1>4, <2>1, <2>2
<1>5. CASE /\ e # NULL /\ RemoveFaults(queue, e)
           /\ panic("address too low")
           /\ env_sched_list' = queue
           /\ UNCHANGED <<curenv, count>>
  BY <1>5 DEF panic, Panics, StructInv, KernelTypeOK
<1>6. CASE /\ env_sched_list' = requeued
           /\ TAILQ_EMPTY(requeued)
           /\ panic("no runnable envs")
           /\ curenv' = e /\ UNCHANGED count
  BY <1>2, <1>6 DEF panic, Panics, StructInv, KernelTypeOK
<1>7. CASE /\ env_sched_list' = requeued
           /\ ~TAILQ_EMPTY(requeued)
           /\ count' = env_pri[next] - 1
           /\ env_run(next, status, e)
  <2>1. next \in Ranked
    BY <1>3, <1>7 DEF TAILQ_EMPTY, TAILQ_FIRST
  <2> HIDE DEF next
  <2>2. next \in Env /\ count' \in Nat
    BY <1>7, <2>1 DEF Ranked, StructInv, KernelTypeOK
  <2>3. CASE status[next] = "ENV_RUNNABLE"
    BY <1>2, <1>7, <2>2, <2>3 DEF env_run
  <2>4. CASE status[next] # "ENV_RUNNABLE"
    BY <1>2, <1>7, <2>2, <2>4 DEF env_run, panic, Panics
  <2> QED BY <2>3, <2>4
<1> QED
  <2> USE DEF requeued, removed
  <2> QED BY <1>4, <1>5, <1>6, <1>7 DEF schedule

-----------------------------------------------------------------------------
(* The free list under a successful env_alloc and under env_free.          *)

LEMMA FreeListPop ==
    ASSUME KernelTypeOK, FreeListExact, env_free_list # <<>>,
           NEW e \in Env, e = Head(env_free_list), NEW status \in Statuses,
           status # "ENV_FREE",
           env_free_list' = Tail(env_free_list),
           env_status' = [env_status EXCEPT ![e] = status]
    PROVE  /\ env_status[e] = "ENV_FREE"
           /\ env_free_list' \in Seq(Env)
           /\ FreeListExact'
<1> DEFINE s == env_free_list
<1>1. s \in Seq(Env) /\ s # <<>>
  BY DEF KernelTypeOK
<1>2. /\ Head(s) \in Env /\ Head(s) = s[1]
      /\ Tail(s) \in Seq(Env)
      /\ Len(s) \in Nat \ {0}
      /\ Len(Tail(s)) = Len(s) - 1
      /\ \A i \in 1..Len(Tail(s)) : Tail(s)[i] = s[i + 1]
  BY <1>1, PopFacts
<1>3. env_status[e] = "ENV_FREE"
  BY <1>2 DEF FreeListExact
<1>4. \A x \in Env : env_status'[x] = "ENV_FREE" <=> x # e /\ env_status[x] = "ENV_FREE"
  BY DEF KernelTypeOK
<1>5. \A x \in Env : (\E i \in 1..Len(Tail(s)) : Tail(s)[i] = x) <=>
                       x # e /\ \E i \in 1..Len(s) : s[i] = x
  <2> TAKE x \in Env
  <2>1. ASSUME NEW i \in 1..Len(Tail(s)), Tail(s)[i] = x
        PROVE  x # e /\ \E j \in 1..Len(s) : s[j] = x
    BY <1>2, <2>1 DEF FreeListExact
  <2>2. ASSUME x # e, NEW j \in 1..Len(s), s[j] = x
        PROVE  \E i \in 1..Len(Tail(s)) : Tail(s)[i] = x
    <3>1. j # 1 /\ j - 1 \in 1..Len(Tail(s)) /\ Tail(s)[j - 1] = s[(j - 1) + 1]
      BY <1>2, <2>2
    <3> QED BY <2>2, <3>1
  <2> QED BY <2>1, <2>2
<1>6. \A i, j \in 1..Len(Tail(s)) : Tail(s)[i] = Tail(s)[j] => i = j
  BY <1>2 DEF FreeListExact
<1> QED BY <1>2, <1>3, <1>4, <1>5, <1>6 DEF FreeListExact

\* FreeListExact of given statuses and a given list.
Exact(status, list) ==
    /\ \A e \in Env : status[e] = "ENV_FREE" <=> \E i \in 1..Len(list) : list[i] = e
    /\ \A i, j \in 1..Len(list) : list[i] = list[j] => i = j

LEMMA PushExact ==
    ASSUME NEW status \in [Env -> Statuses], NEW s \in Seq(Env), Exact(status, s),
           NEW e \in Env, status[e] # "ENV_FREE"
    PROVE  Exact([status EXCEPT ![e] = "ENV_FREE"], <<e>> \o s)
<1> DEFINE t == <<e>> \o s
<1>1. Len(s) \in Nat
  OBVIOUS
<1>2. /\ Len(t) = Len(s) + 1
      /\ t[1] = e
      /\ \A i \in 2..Len(s) + 1 : t[i] = s[i - 1]
  BY PushFacts
<1> HIDE DEF t
<1>3. \A i \in 1..Len(s) : s[i] # e
  BY DEF Exact
<1>4. \A x \in Env : (\E i \in 1..Len(t) : t[i] = x) <=>
                       x = e \/ \E i \in 1..Len(s) : s[i] = x
  <2> TAKE x \in Env
  <2>1. ASSUME NEW i \in 1..Len(t), t[i] = x
        PROVE  x = e \/ \E j \in 1..Len(s) : s[j] = x
    <3>1. CASE i = 1
      BY <1>2, <2>1, <3>1
    <3>2. CASE i # 1
      <4>1. i - 1 \in 1..Len(s) /\ t[i] = s[i - 1]
        BY <1>1, <1>2, <2>1, <3>2
      <4> QED BY <2>1, <4>1
    <3> QED BY <3>1, <3>2
  <2>2. ASSUME x = e
        PROVE  \E i \in 1..Len(t) : t[i] = x
    BY <1>1, <1>2, <2>2
  <2>3. ASSUME NEW j \in 1..Len(s), s[j] = x
        PROVE  \E i \in 1..Len(t) : t[i] = x
    <3>1. j + 1 \in 1..Len(t) /\ t[j + 1] = s[(j + 1) - 1] /\ (j + 1) - 1 = j
      BY <1>1, <1>2, <2>3
    <3> QED BY <2>3, <3>1
  <2> QED BY <2>1, <2>2, <2>3
<1>5. \A i, j \in 1..Len(t) : t[i] = t[j] => i = j
  <2> TAKE i, j \in 1..Len(t)
  <2>1. i = 1 \/ (i - 1 \in 1..Len(s) /\ t[i] = s[i - 1])
    BY <1>1, <1>2
  <2>2. j = 1 \/ (j - 1 \in 1..Len(s) /\ t[j] = s[j - 1])
    BY <1>1, <1>2
  <2>3. ASSUME i # 1, j # 1, t[i] = t[j]
        PROVE  i = j
    <3>1. i - 1 = j - 1
      BY <2>1, <2>2, <2>3 DEF Exact
    <3> QED BY <1>1, <1>2, <3>1
  <2>4. ASSUME i = 1, j # 1, t[i] = t[j]
        PROVE  FALSE
    BY <1>2, <1>3, <2>2, <2>4
  <2>5. ASSUME i # 1, j = 1, t[i] = t[j]
        PROVE  FALSE
    BY <1>2, <1>3, <2>1, <2>5
  <2> QED BY <2>3, <2>4, <2>5
<1> QED
  <2>1. \A x \in Env : [status EXCEPT ![e] = "ENV_FREE"][x] = "ENV_FREE" <=>
                          x = e \/ status[x] = "ENV_FREE"
    OBVIOUS
  <2>2. Exact([status EXCEPT ![e] = "ENV_FREE"], t)
    BY <1>4, <1>5, <2>1 DEF Exact
  <2> QED BY <2>2 DEF t

LEMMA FreeListPush ==
    ASSUME KernelTypeOK, FreeListExact, NEW e \in Env, env_status[e] # "ENV_FREE",
           env_free_list' = <<e>> \o env_free_list,
           env_status' = [env_status EXCEPT ![e] = "ENV_FREE"]
    PROVE  env_free_list' \in Seq(Env) /\ FreeListExact'
<1>1. env_status \in [Env -> Statuses] /\ env_free_list \in Seq(Env)
  BY DEF KernelTypeOK
<1>2. Exact(env_status, env_free_list)
  BY DEF Exact, FreeListExact
<1>3. Exact([env_status EXCEPT ![e] = "ENV_FREE"], <<e>> \o env_free_list)
  BY <1>1, <1>2, PushExact
<1>4. Exact(env_status', env_free_list')
  BY <1>3, Zenon
<1>5. FreeListExact'
  BY <1>4, Zenon DEF Exact, FreeListExact
<1>6. <<e>> \o env_free_list \in Seq(Env)
  BY <1>1, PushFacts
<1> QED BY <1>5, <1>6

-----------------------------------------------------------------------------
(* StructInv is inductive.                                                 *)

\* What envid2env returns is NULL or a slot that is in use.
LEMMA LookupLive ==
    ASSUME StructInv, Running, NEW envid \in EnvIds, NEW checkperm \in BOOLEAN,
           envid2env(envid, checkperm) # NULL
    PROVE  /\ envid2env(envid, checkperm) \in Env
           /\ env_status[envid2env(envid, checkperm)] # "ENV_FREE"
  BY DEF StructInv, KernelTypeOK, CurenvLive, Running, envid2env, EnvIds, ENVX

\* The free list stays exact when no status enters or leaves ENV_FREE.
LEMMA FreeListKept ==
    ASSUME KernelTypeOK, FreeListExact, NEW e \in Env, env_status[e] # "ENV_FREE",
           NEW status \in Statuses, status # "ENV_FREE",
           env_status' = [env_status EXCEPT ![e] = status],
           UNCHANGED env_free_list
    PROVE  FreeListExact'
  BY DEF KernelTypeOK, FreeListExact

\* Ranking one more slot keeps the queue's pointers among ranked slots.
LEMMA RankedGrows ==
    ASSUME StructInv, NEW e \in Env, NEW priority \in Nat \ {0},
           env_pri' = [env_pri EXCEPT ![e] = priority],
           NEW q, PointersIn(q, Ranked)
    PROVE  PointersIn(q, Ranked') /\ e \in Ranked'
  BY DEF StructInv, KernelTypeOK, PointersIn, Ranked

LEMMA InitStruct == Init => StructInv
<1> SUFFICES ASSUME Init PROVE StructInv
  OBVIOUS
<1>1. env_free_list \in Seq(Env) /\ Len(env_free_list) = NENV
  <2>1. [i \in 1..NENV |-> i - 1] \in [1..NENV -> Env] /\ NENV \in Nat
    BY SizesAssumption DEF Env
  <2>2. [i \in 1..NENV |-> i - 1] \in Seq(Env)
    BY <2>1
  <2>3. Len([i \in 1..NENV |-> i - 1]) = NENV
    BY <2>1
  <2> QED BY <2>2, <2>3 DEF Init
<1>2. Zero \in EnvIds
  BY SizesAssumption DEF Zero, EnvIds, Env
<1>3. KernelTypeOK
  <2>1. env_sched_list \in TailqType
    BY DEF Init, TAILQ_INIT, TailqType
  <2>2. /\ env_status \in [Env -> Statuses]
        /\ env_id \in [Env -> EnvIds] /\ env_parent_id \in [Env -> EnvIds]
        /\ env_ipc_from \in [Env -> EnvIds]
    BY <1>2 DEF Init, Statuses
  <2>3. /\ env_pri \in [Env -> Nat]
        /\ curenv \in Env \cup {NULL}
        /\ count \in Nat
        /\ last_id \in 0..MaxIds
        /\ halted \in {"no"} \cup Panics
    BY SizesAssumption DEF Init
  <2>4. env_ipc_recving \in [Env -> BOOLEAN] /\ irq_on \in BOOLEAN
    BY Zenon DEF Init
  <2> QED BY <1>1, <2>1, <2>2, <2>3, <2>4 DEF KernelTypeOK
<1>4. FreeListExact
  <2>1. ASSUME NEW e \in Env
        PROVE  \E i \in 1..NENV : env_free_list[i] = e
    <3>1. e + 1 \in 1..NENV /\ env_free_list[e + 1] = e
      BY SizesAssumption DEF Init, Env
    <3> QED BY <3>1
  <2>2. \A i, j \in 1..NENV : env_free_list[i] = env_free_list[j] => i = j
    BY SizesAssumption DEF Init
  <2> QED BY <1>1, <2>1, <2>2 DEF Init, FreeListExact
<1>5. CurenvLive /\ LiveRanked /\ PointersIn(env_sched_list, Ranked)
  BY DEF Init, CurenvLive, LiveRanked, PointersIn, TAILQ_INIT
<1> QED BY <1>3, <1>4, <1>5 DEF StructInv

\* Facts that env_alloc gives, whoever calls it.
LEMMA AllocFacts ==
    ASSUME StructInv, NEW e \in Env, NEW parent \in EnvIds, env_alloc(e, parent),
           NEW status \in Statuses, status # "ENV_FREE",
           env_status' = [env_status EXCEPT ![e] = status]
    PROVE  /\ env_id' \in [Env -> EnvIds] /\ env_parent_id' \in [Env -> EnvIds]
           /\ env_free_list' \in Seq(Env) /\ last_id' \in 0..MaxIds
           /\ env_status[e] = "ENV_FREE"
           /\ FreeListExact'
<1>1. <<last_id + 1, e>> \in EnvIds /\ last_id' \in 0..MaxIds
  BY SizesAssumption DEF StructInv, KernelTypeOK, EnvIds, env_alloc
<1>2. env_id' \in [Env -> EnvIds] /\ env_parent_id' \in [Env -> EnvIds]
  BY <1>1 DEF StructInv, KernelTypeOK, env_alloc
<1>3. /\ KernelTypeOK /\ FreeListExact /\ env_free_list # <<>>
      /\ e = Head(env_free_list) /\ env_free_list' = Tail(env_free_list)
  BY DEF StructInv, env_alloc
<1>4. /\ env_status[e] = "ENV_FREE"
      /\ env_free_list' \in Seq(Env)
      /\ FreeListExact'
  BY <1>3, FreeListPop
<1> QED BY <1>1, <1>2, <1>4

LEMMA CreateStruct ==
    ASSUME StructInv, NEW priority \in Priorities, env_create(priority)
    PROVE  StructInv'
<1>1. PICK e \in Env :
          /\ env_alloc(e, Zero)
          /\ env_pri' = [env_pri EXCEPT ![e] = priority]
          /\ env_status' = [env_status EXCEPT ![e] = "ENV_RUNNABLE"]
          /\ env_sched_list' = TAILQ_INSERT_HEAD(env_sched_list, e)
  BY DEF env_create
<1>2. Zero \in EnvIds
  BY SizesAssumption DEF Zero, EnvIds, Env
<1>3. /\ env_id' \in [Env -> EnvIds] /\ env_parent_id' \in [Env -> EnvIds]
      /\ env_free_list' \in Seq(Env) /\ last_id' \in 0..MaxIds
      /\ env_status[e] = "ENV_FREE"
      /\ FreeListExact'
  BY <1>1, <1>2, AllocFacts DEF Statuses
<1>4. priority \in Nat \ {0}
  BY PriorityAssumption
<1>5. PointersIn(env_sched_list, Ranked') /\ e \in Ranked'
  BY <1>1, <1>4, RankedGrows DEF StructInv
<1>6. env_sched_list' \in TailqType /\ PointersIn(env_sched_list', Ranked')
  BY <1>1, <1>5, InsertHeadType DEF StructInv, KernelTypeOK
<1>7. KernelTypeOK'
  BY <1>1, <1>3, <1>4, <1>6
  DEF StructInv, KernelTypeOK, env_create, ipcFields, Statuses
<1>8. CurenvLive' /\ LiveRanked'
  BY <1>1, <1>4
  DEF StructInv, KernelTypeOK, CurenvLive, LiveRanked, env_create, ipcFields
<1> QED BY <1>3, <1>6, <1>7, <1>8 DEF StructInv, PointersIn, Ranked

LEMMA ExoforkStruct ==
    ASSUME StructInv, sys_exofork
    PROVE  StructInv'
<1>1. PICK e \in Env :
          /\ env_alloc(e, env_id[curenv])
          /\ env_status' = [env_status EXCEPT ![e] = "ENV_NOT_RUNNABLE"]
          /\ env_pri' = [env_pri EXCEPT ![e] = env_pri[curenv]]
  BY DEF sys_exofork
<1>2. env_id[curenv] \in EnvIds /\ env_pri[curenv] \in Nat \ {0}
  BY DEF StructInv, KernelTypeOK, CurenvLive, LiveRanked, sys_exofork, Running
<1>3. /\ env_id' \in [Env -> EnvIds] /\ env_parent_id' \in [Env -> EnvIds]
      /\ env_free_list' \in Seq(Env) /\ last_id' \in 0..MaxIds
      /\ env_status[e] = "ENV_FREE"
      /\ FreeListExact'
  BY <1>1, <1>2, AllocFacts DEF Statuses
<1>4. PointersIn(env_sched_list, Ranked') /\ e \in Ranked'
  BY <1>1, <1>2, RankedGrows DEF StructInv
<1>5. KernelTypeOK'
  BY <1>1, <1>2, <1>3
  DEF StructInv, KernelTypeOK, sys_exofork, ipcFields, runState, Statuses
<1>6. CurenvLive' /\ LiveRanked'
  BY <1>1, <1>2
  DEF StructInv, KernelTypeOK, CurenvLive, LiveRanked, sys_exofork, ipcFields, runState
<1>7. PointersIn(env_sched_list', Ranked')
  BY <1>4 DEF sys_exofork, runState
<1> QED BY <1>3, <1>5, <1>6, <1>7 DEF StructInv, PointersIn, Ranked

\* sys_exofork_no_asid renames a slot that stays free.
LEMMA ExoforkFailsStruct ==
    ASSUME StructInv, sys_exofork_no_asid
    PROVE  StructInv'
<1>1. Head(env_free_list) \in Env
  BY PopFacts DEF StructInv, KernelTypeOK, sys_exofork_no_asid
<1>2. last_id' \in 0..MaxIds /\ <<last_id + 1, Head(env_free_list)>> \in EnvIds
  BY <1>1, SizesAssumption DEF StructInv, KernelTypeOK, EnvIds, sys_exofork_no_asid
<1>3. KernelTypeOK'
  BY <1>1, <1>2 DEF StructInv, KernelTypeOK, sys_exofork_no_asid, ipcFields, runState
<1> QED BY <1>3 DEF StructInv, FreeListExact, CurenvLive, LiveRanked, PointersIn,
                    Ranked, sys_exofork_no_asid, ipcFields, runState

\* The timer and sys_yield: schedule() on the state as it is.
LEMMA ScheduleStruct ==
    ASSUME StructInv, halted = "no", NEW yield \in BOOLEAN,
           schedule(yield, env_status, env_sched_list, curenv),
           UNCHANGED <<envFields, ipcFields, env_free_list, last_id, irq_on>>
    PROVE  StructInv'
<1>1. /\ env_status \in [Env -> Statuses] /\ env_sched_list \in TailqType
      /\ PointersIn(env_sched_list, Ranked) /\ curenv \in Env \cup {NULL}
      /\ curenv # NULL /\ env_status[curenv] = "ENV_RUNNABLE" => env_pri[curenv] >= 1
  BY DEF StructInv, KernelTypeOK, LiveRanked
<1>2. /\ env_sched_list' \in TailqType
      /\ PointersIn(env_sched_list', Ranked)
      /\ curenv' \in Env \cup {NULL}
      /\ count' \in Nat
      /\ halted' \in {"no"} \cup Panics
      /\ halted' = "no" => curenv' \in Env /\ env_status[curenv'] = "ENV_RUNNABLE"
  BY <1>1, ScheduleFacts
<1>3. KernelTypeOK'
  BY <1>2 DEF StructInv, KernelTypeOK, envFields, ipcFields
<1> QED BY <1>2, <1>3 DEF StructInv, FreeListExact, CurenvLive, LiveRanked,
                          PointersIn, Ranked, envFields, ipcFields

LEMMA SetStatusStruct ==
    ASSUME StructInv, NEW envid \in EnvIds, NEW status \in Statuses \ {"ENV_FREE"},
           sys_set_env_status(envid, status)
    PROVE  StructInv'
<1> DEFINE e == envid2env(envid, TRUE)
<1>1. e \in Env /\ env_status[e] # "ENV_FREE"
  BY LookupLive DEF sys_set_env_status
<1>2. e \in Ranked
  BY <1>1 DEF StructInv, LiveRanked, Ranked
<1>3. env_status' = [env_status EXCEPT ![e] = status]
  BY DEF sys_set_env_status
<1>4. env_sched_list' \in TailqType /\ PointersIn(env_sched_list', Ranked)
  <2>1. /\ env_sched_list \in TailqType /\ PointersIn(env_sched_list, Ranked)
        /\ env_sched_list' \in {env_sched_list, TAILQ_INSERT_TAIL(env_sched_list, e),
                                 TAILQ_REMOVE(env_sched_list, e)}
    BY DEF StructInv, KernelTypeOK, sys_set_env_status
  <2> HIDE DEF e
  <2> QED BY <1>1, <1>2, <2>1, InsertTailType, RemoveType
<1> HIDE DEF e
<1>5. FreeListExact'
  BY <1>1, <1>3, FreeListKept DEF StructInv, sys_set_env_status
<1>6. KernelTypeOK'
  BY <1>1, <1>3, <1>4 DEF StructInv, KernelTypeOK, sys_set_env_status, ipcFields
<1>7. CurenvLive' /\ LiveRanked'
  BY <1>1, <1>3 DEF StructInv, KernelTypeOK, CurenvLive, LiveRanked, sys_set_env_status
<1> QED BY <1>4, <1>5, <1>6, <1>7
        DEF StructInv, PointersIn, Ranked, sys_set_env_status

LEMMA RecvStruct ==
    ASSUME StructInv, sys_ipc_recv
    PROVE  StructInv' /\ (halted' = "no" => env_status'[curenv'] = "ENV_RUNNABLE")
<1>1. /\ curenv \in Env /\ env_status[curenv] # "ENV_FREE" /\ halted = "no"
      /\ env_status' = [env_status EXCEPT ![curenv] = "ENV_NOT_RUNNABLE"]
  BY DEF sys_ipc_recv, Running, StructInv, KernelTypeOK, CurenvLive
<1>2. /\ env_status' \in [Env -> Statuses]
      /\ env_status'[curenv] = "ENV_NOT_RUNNABLE"
  BY <1>1 DEF StructInv, KernelTypeOK, Statuses
<1>3. /\ TAILQ_REMOVE(env_sched_list, curenv) \in TailqType
      /\ PointersIn(TAILQ_REMOVE(env_sched_list, curenv), Ranked)
  BY <1>1, RemoveType DEF StructInv, KernelTypeOK
<1>4. /\ env_sched_list' \in TailqType
      /\ PointersIn(env_sched_list', Ranked)
      /\ curenv' \in Env \cup {NULL}
      /\ count' \in Nat
      /\ halted' \in {"no"} \cup Panics
      /\ halted' = "no" => curenv' \in Env /\ env_status'[curenv'] = "ENV_RUNNABLE"
  <2>1. PICK status \in [Env -> Statuses] : status = env_status'
    BY <1>2
  <2>2. schedule(TRUE, status, TAILQ_REMOVE(env_sched_list, curenv), curenv)
    BY <2>1, Zenon DEF sys_ipc_recv
  <2>3. status[curenv] # "ENV_RUNNABLE"
    BY <1>2, <2>1
  <2> QED BY <1>1, <1>3, <2>1, <2>2, <2>3, ScheduleFacts
<1>5. FreeListExact'
  BY <1>1, FreeListKept DEF StructInv, sys_ipc_recv, Statuses
<1>6. KernelTypeOK'
  BY <1>1, <1>2, <1>4 DEF StructInv, KernelTypeOK, sys_ipc_recv
<1>7. CurenvLive' /\ LiveRanked'
  BY <1>1, <1>4 DEF StructInv, KernelTypeOK, CurenvLive, LiveRanked, sys_ipc_recv
<1> QED BY <1>4, <1>5, <1>6, <1>7 DEF StructInv, PointersIn, Ranked, sys_ipc_recv

LEMMA SendStruct ==
    ASSUME StructInv, NEW envid \in EnvIds, sys_ipc_try_send(envid)
    PROVE  StructInv'
<1> DEFINE e == envid2env(envid, FALSE)
<1>1. e \in Env /\ env_status[e] # "ENV_FREE"
  BY LookupLive DEF sys_ipc_try_send
<1>2. e \in Ranked
  BY <1>1 DEF StructInv, LiveRanked, Ranked
<1>3. /\ env_status' = [env_status EXCEPT ![e] = "ENV_RUNNABLE"]
      /\ env_sched_list' = TAILQ_INSERT_TAIL(env_sched_list, e)
      /\ env_ipc_from' = [env_ipc_from EXCEPT ![e] = env_id[curenv]]
      /\ env_ipc_recving' = [env_ipc_recving EXCEPT ![e] = FALSE]
      /\ env_id[curenv] \in EnvIds
  BY DEF sys_ipc_try_send, Running, StructInv, KernelTypeOK
<1> HIDE DEF e
<1>4. env_sched_list' \in TailqType /\ PointersIn(env_sched_list', Ranked)
  BY <1>1, <1>2, <1>3, InsertTailType DEF StructInv, KernelTypeOK
<1>5. FreeListExact'
  BY <1>1, <1>3, FreeListKept DEF StructInv, sys_ipc_try_send, Statuses
<1>6. KernelTypeOK'
  BY <1>1, <1>3, <1>4 DEF StructInv, KernelTypeOK, sys_ipc_try_send, Statuses
<1>7. CurenvLive' /\ LiveRanked'
  BY <1>1, <1>3 DEF StructInv, KernelTypeOK, CurenvLive, LiveRanked, sys_ipc_try_send
<1> QED BY <1>4, <1>5, <1>6, <1>7
        DEF StructInv, PointersIn, Ranked, sys_ipc_try_send

LEMMA DestroyStruct ==
    ASSUME StructInv, NEW envid \in EnvIds, sys_env_destroy(envid)
    PROVE  /\ StructInv'
           /\ halted' = "no" => \/ curenv' = curenv /\ curenv # envid2env(envid, TRUE)
                                \/ env_status'[curenv'] = "ENV_RUNNABLE"
<1> DEFINE e == envid2env(envid, TRUE)
           freed == TAILQ_REMOVE(env_sched_list, e)
<1>1. e \in Env /\ env_status[e] # "ENV_FREE" /\ halted = "no"
  BY LookupLive DEF sys_env_destroy, Running
<1>2. /\ env_status' = [env_status EXCEPT ![e] = "ENV_FREE"]
      /\ env_free_list' = <<e>> \o env_free_list
      /\ \/ /\ halted' = "address too low"
            /\ UNCHANGED <<env_sched_list, curenv, count>>
         \/ e = curenv /\ schedule(TRUE, env_status', freed, NULL)
         \/ /\ env_sched_list' = freed /\ e # curenv
            /\ UNCHANGED <<curenv, count, halted>>
  BY DEF sys_env_destroy, panic
<1> HIDE DEF e
<1>3. freed \in TailqType /\ PointersIn(freed, Ranked)
  BY <1>1, RemoveType DEF StructInv, KernelTypeOK
<1> HIDE DEF freed
<1>4. env_status' \in [Env -> Statuses]
  BY <1>2 DEF StructInv, KernelTypeOK, Statuses
<1>5. env_free_list' \in Seq(Env) /\ FreeListExact'
  BY <1>1, <1>2, FreeListPush DEF StructInv
<1>6. /\ env_sched_list' \in TailqType
      /\ PointersIn(env_sched_list', Ranked)
      /\ curenv' \in Env \cup {NULL}
      /\ count' \in Nat
      /\ halted' \in {"no"} \cup Panics
      /\ halted' = "no" => \/ curenv' = curenv /\ curenv # e
                           \/ curenv' \in Env /\ env_status'[curenv'] = "ENV_RUNNABLE"
  <2>1. CASE /\ halted' = "address too low"
             /\ UNCHANGED <<env_sched_list, curenv, count>>
    BY <2>1 DEF StructInv, KernelTypeOK, Panics
  <2>2. CASE e = curenv /\ schedule(TRUE, env_status', freed, NULL)
    <3>1. PICK status \in [Env -> Statuses] : status = env_status'
      BY <1>4
    <3>2. schedule(TRUE, status, freed, NULL)
      BY <2>2, <3>1, Zenon
    <3> QED BY <1>1, <1>3, <3>1, <3>2, ScheduleFacts
  <2>3. CASE /\ env_sched_list' = freed /\ e # curenv
             /\ UNCHANGED <<curenv, count, halted>>
    BY <1>3, <2>3 DEF StructInv, KernelTypeOK
  <2> QED BY <1>2, <2>1, <2>2, <2>3
<1>7. KernelTypeOK'
  BY <1>4, <1>5, <1>6 DEF StructInv, KernelTypeOK, sys_env_destroy, ipcFields
<1>8. CurenvLive' /\ LiveRanked'
  BY <1>1, <1>2, <1>6
  DEF StructInv, KernelTypeOK, CurenvLive, LiveRanked, sys_env_destroy
<1>9. StructInv'
  BY <1>5, <1>6, <1>7, <1>8 DEF StructInv, PointersIn, Ranked, sys_env_destroy
<1> QED BY <1>6, <1>9 DEF e

LEMMA NextStruct == StructInv /\ [Handlers]_kernelVars => StructInv'
<1> SUFFICES ASSUME StructInv, [Handlers]_kernelVars PROVE StructInv'
  OBVIOUS
<1>1. CASE \E priority \in Priorities : env_create(priority)
  BY <1>1, CreateStruct
<1>2. CASE enable_irq
  BY <1>2 DEF enable_irq, envFields, ipcFields, runState, StructInv, KernelTypeOK,
              FreeListExact, CurenvLive, LiveRanked, PointersIn, Ranked
<1>3. CASE timer_irq
  BY <1>3, ScheduleStruct DEF timer_irq
<1>4. CASE sys_yield
  BY <1>4, ScheduleStruct DEF sys_yield, Running
<1>5. CASE sys_exofork
  BY <1>5, ExoforkStruct
<1>6. CASE sys_exofork_no_asid
  BY <1>6, ExoforkFailsStruct
<1>7. CASE \E envid \in EnvIds, status \in Statuses \ {"ENV_FREE"} :
             sys_set_env_status(envid, status)
  BY <1>7, SetStatusStruct
<1>8. CASE sys_ipc_recv
  BY <1>8, RecvStruct
<1>9. CASE \E envid \in EnvIds : sys_ipc_try_send(envid)
  BY <1>9, SendStruct
<1>10. CASE \E envid \in EnvIds : sys_env_destroy(envid)
  BY <1>10, DestroyStruct
<1>11. CASE UNCHANGED kernelVars
  BY <1>11 DEF kernelVars, StructInv, KernelTypeOK, FreeListExact, CurenvLive, LiveRanked,
               PointersIn, Ranked
<1> QED BY <1>1, <1>2, <1>3, <1>4, <1>5, <1>6, <1>7, <1>8, <1>9, <1>10, <1>11
        DEF Handlers

\* A step is a handler's, or one of sys_cgetc's polling, which changes nothing but
\* that nobody else moves meanwhile (kern/syscall_all.c:455-459).
LEMMA StepHandles == [Next]_vars => [Handlers]_kernelVars
  BY DEF Next, vars, sys_cgetc, key

LEMMA ReadingTyped == reading \in BOOLEAN /\ [Next]_vars => (reading \in BOOLEAN)'
  BY DEF Next, vars, sys_cgetc, key

\* Every variable keeps its type under every mix of calls, for any Discipline:
\* schedule() never counts below zero and never follows a pointer that is not
\* an environment's, even once env_free or sys_ipc_try_send has corrupted the
\* run queue (kern/env.c:431, kern/syscall_all.c:437).
THEOREM TypeCorrect == Spec => []TypeOK
<1>1. StructInv /\ reading \in BOOLEAN => TypeOK
  BY DEF StructInv, TypeOK
<1>2. Init => StructInv /\ reading \in BOOLEAN
  BY InitStruct DEF Init
<1> QED BY <1>1, <1>2, NextStruct, StepHandles, ReadingTyped, PTL DEF Spec

\* env_alloc and env_free hand out and take back every slot of envs exactly
\* once, also when asid_alloc fails after env_alloc has renamed the slot.
THEOREM FreeListIsExact == Spec => []FreeListExact
<1>1. StructInv => FreeListExact
  BY DEF StructInv
<1> QED BY <1>1, InitStruct, NextStruct, StepHandles, PTL DEF Spec

-----------------------------------------------------------------------------
(* Blocking: what holds when user code keeps all three rules.              *)

BlockingInv == StructInv /\ BlockedWhileReceiving /\ CurenvRunnable

LEMMA InitBlocking == Init => BlockingInv
  BY InitStruct DEF Init, BlockingInv, BlockedWhileReceiving, CurenvRunnable

LEMMA NextBlocking ==
    ASSUME Discipline = AllRules, BlockingInv, [Handlers]_kernelVars
    PROVE  BlockingInv'
<1>1. StructInv'
  BY NextStruct DEF BlockingInv
<1> USE DEF BlockingInv, BlockedWhileReceiving, CurenvRunnable
<1>2. CASE \E priority \in Priorities : env_create(priority)
  <2>1. PICK e \in Env :
           /\ env_alloc(e, Zero)
           /\ env_status' = [env_status EXCEPT ![e] = "ENV_RUNNABLE"]
    BY <1>2 DEF env_create
  <2>2. env_status[e] = "ENV_FREE"
    <3>1. env_free_list # <<>> /\ e = Head(env_free_list)
      BY <2>1 DEF env_alloc
    <3>2. e = env_free_list[1] /\ Len(env_free_list) \in Nat \ {0}
      BY <3>1, PopFacts DEF StructInv, KernelTypeOK
    <3> QED BY <3>2 DEF StructInv, FreeListExact
  <2>3. ~env_ipc_recving[e] /\ UNCHANGED <<env_ipc_recving, curenv, halted>>
    BY <1>2, <2>2 DEF env_create, ipcFields
  <2> QED BY <1>1, <2>1, <2>2, <2>3 DEF StructInv, KernelTypeOK
<1>3. CASE enable_irq
  BY <1>1, <1>3 DEF enable_irq, envFields, ipcFields, runState
<1>4. ASSUME halted = "no", NEW yield \in BOOLEAN,
             schedule(yield, env_status, env_sched_list, curenv),
             UNCHANGED <<env_status, env_ipc_recving>>
      PROVE  BlockingInv'
  <2>1. /\ env_status \in [Env -> Statuses] /\ env_sched_list \in TailqType
        /\ PointersIn(env_sched_list, Ranked) /\ curenv \in Env \cup {NULL}
        /\ curenv # NULL /\ env_status[curenv] = "ENV_RUNNABLE" => env_pri[curenv] >= 1
    BY DEF StructInv, KernelTypeOK, LiveRanked
  <2>2. halted' = "no" => env_status[curenv'] = "ENV_RUNNABLE"
    BY <1>4, <2>1, ScheduleFacts
  <2> QED BY <1>1, <1>4, <2>2
<1>5. CASE timer_irq
  BY <1>4, <1>5 DEF timer_irq, envFields, ipcFields
<1>6. CASE sys_yield
  BY <1>4, <1>6 DEF sys_yield, Running, envFields, ipcFields
<1>7. CASE sys_exofork
  <2>1. PICK e \in Env :
           /\ env_alloc(e, env_id[curenv])
           /\ env_status' = [env_status EXCEPT ![e] = "ENV_NOT_RUNNABLE"]
    BY <1>7 DEF sys_exofork
  <2>2. env_status[e] = "ENV_FREE"
    <3>1. env_free_list # <<>> /\ e = Head(env_free_list)
      BY <2>1 DEF env_alloc
    <3>2. e = env_free_list[1] /\ Len(env_free_list) \in Nat \ {0}
      BY <3>1, PopFacts DEF StructInv, KernelTypeOK
    <3> QED BY <3>2 DEF StructInv, FreeListExact
  <2>3. UNCHANGED <<env_ipc_recving, curenv, halted>>
    BY <1>7 DEF sys_exofork, ipcFields, runState
  <2> QED BY <1>1, <2>1, <2>2, <2>3 DEF StructInv, KernelTypeOK
<1>8. CASE sys_exofork_no_asid
  BY <1>1, <1>8 DEF sys_exofork_no_asid, ipcFields, runState
<1>9. ASSUME NEW envid \in EnvIds, NEW status \in Statuses \ {"ENV_FREE"},
             sys_set_env_status(envid, status)
      PROVE  BlockingInv'
  <2>1. PICK e : e = envid2env(envid, TRUE)
    OBVIOUS
  <2>2. /\ e \in Env
        /\ env_status' = [env_status EXCEPT ![e] = status]
        /\ UNCHANGED <<env_ipc_recving, curenv, halted>>
    BY <1>9, <2>1, LookupLive DEF sys_set_env_status, ipcFields
  <2>3. /\ status = "ENV_RUNNABLE" => ~env_ipc_recving[e]
        /\ status # "ENV_RUNNABLE" => e # curenv
    BY <1>9, <2>1 DEF sys_set_env_status, Permits, AllRules
  <2>4. status \in {"ENV_RUNNABLE", "ENV_NOT_RUNNABLE"}
    BY <1>9 DEF Statuses
  <2>5. BlockedWhileReceiving'
    BY <2>2, <2>3, <2>4 DEF StructInv, KernelTypeOK
  <2>6. CurenvRunnable'
    BY <2>2, <2>3 DEF StructInv, KernelTypeOK
  <2> QED BY <1>1, <2>5, <2>6
<1>10. CASE sys_ipc_recv
  <2>1. /\ env_ipc_recving' = [env_ipc_recving EXCEPT ![curenv] = TRUE]
        /\ env_status' = [env_status EXCEPT ![curenv] = "ENV_NOT_RUNNABLE"]
        /\ curenv \in Env
    BY <1>10 DEF sys_ipc_recv, Running, StructInv, KernelTypeOK
  <2>2. BlockedWhileReceiving'
    BY <2>1 DEF StructInv, KernelTypeOK
  <2> QED BY <1>1, <1>10, <2>2, RecvStruct
<1>11. ASSUME NEW envid \in EnvIds, sys_ipc_try_send(envid)
       PROVE  BlockingInv'
  <2>1. PICK e : e = envid2env(envid, FALSE)
    OBVIOUS
  <2>2. /\ e \in Env
        /\ env_ipc_recving' = [env_ipc_recving EXCEPT ![e] = FALSE]
        /\ env_status' = [env_status EXCEPT ![e] = "ENV_RUNNABLE"]
        /\ UNCHANGED <<curenv, halted>>
    BY <1>11, <2>1, LookupLive DEF sys_ipc_try_send
  <2> QED BY <1>1, <2>2 DEF StructInv, KernelTypeOK
<1>12. ASSUME NEW envid \in EnvIds, sys_env_destroy(envid)
       PROVE  BlockingInv'
  <2>1. PICK e : e = envid2env(envid, TRUE)
    OBVIOUS
  <2>2. /\ e \in Env /\ halted = "no"
        /\ env_status' = [env_status EXCEPT ![e] = "ENV_FREE"]
        /\ UNCHANGED env_ipc_recving
    BY <1>12, <2>1, LookupLive DEF sys_env_destroy, Running, ipcFields
  <2>3. env_status[e] = "ENV_RUNNABLE"
    BY <1>12, <2>1 DEF sys_env_destroy, Permits, AllRules
  <2>4. BlockedWhileReceiving'
    BY <2>2, <2>3 DEF StructInv, KernelTypeOK
  <2>5. CurenvRunnable'
    <3>1. halted' = "no" => \/ curenv' = curenv /\ curenv # e
                            \/ env_status'[curenv'] = "ENV_RUNNABLE"
      BY <1>12, <2>1, DestroyStruct
    <3> QED BY <2>2, <3>1 DEF StructInv, KernelTypeOK
  <2> QED BY <1>1, <2>4, <2>5
<1>13. CASE UNCHANGED kernelVars
  BY <1>1, <1>13 DEF kernelVars
<1> QED BY <1>2, <1>3, <1>5, <1>6, <1>7, <1>8, <1>9, <1>10, <1>11, <1>12, <1>13
        DEF Handlers

\* Under the three rules no environment marked as receiving is on its way to
\* the processor, and no slot is reused with the mark set: sys_ipc_try_send
\* (syscall_all.c:425-437) wakes only an environment that is asleep.
THEOREM ReceiversBlocked ==
    ASSUME Discipline = AllRules
    PROVE  Spec => []BlockedWhileReceiving
<1>1. BlockingInv => BlockedWhileReceiving
  BY DEF BlockingInv
<1>2. BlockingInv /\ [Handlers]_kernelVars => BlockingInv'
  BY NextBlocking
<1> QED BY <1>1, <1>2, InitBlocking, StepHandles, PTL DEF Spec

\* Under the three rules the kernel returns only to runnable environments: the
\* assertion env_run starts with (env.c:487) holds on every path to it.
THEOREM ReturnsToRunnable ==
    ASSUME Discipline = AllRules
    PROVE  Spec => []CurenvRunnable
<1>1. BlockingInv => CurenvRunnable
  BY DEF BlockingInv
<1>2. BlockingInv /\ [Handlers]_kernelVars => BlockingInv'
  BY NextBlocking
<1> QED BY <1>1, <1>2, InitBlocking, StepHandles, PTL DEF Spec

\* Under the three rules a delivered message is not overwritten before its
\* receiver runs: only sys_ipc_try_send writes env_ipc_from, and it writes it
\* only of an environment that is marked as receiving, hence blocked.
THEOREM DeliveredStays ==
    ASSUME Discipline = AllRules
    PROVE  Spec => MessageNotOverwritten
<1>1. BlockingInv /\ [Handlers]_kernelVars => BlockingInv'
  BY NextBlocking
<1>2. BlockingInv /\ [Next]_vars =>
        [\A e \in Env : e # curenv /\ env_status[e] = "ENV_RUNNABLE"
                            => env_ipc_from'[e] = env_ipc_from[e]]_vars
  <2> SUFFICES ASSUME BlockingInv, [Handlers]_kernelVars, NEW e \in Env,
                      e # curenv, env_status[e] = "ENV_RUNNABLE"
               PROVE  env_ipc_from'[e] = env_ipc_from[e]
    BY StepHandles
  <2>1. ASSUME NEW envid \in EnvIds, sys_ipc_try_send(envid)
        PROVE  env_ipc_from'[e] = env_ipc_from[e]
    <3>1. PICK d : d = envid2env(envid, FALSE)
      OBVIOUS
    <3>2. /\ d \in Env /\ env_ipc_recving[d]
          /\ env_ipc_from' = [env_ipc_from EXCEPT ![d] = env_id[curenv]]
      BY <2>1, <3>1, LookupLive DEF sys_ipc_try_send, BlockingInv
    <3>3. d # e
      BY <3>2 DEF BlockingInv, BlockedWhileReceiving
    <3> QED BY <3>2, <3>3 DEF BlockingInv, StructInv, KernelTypeOK
  <2>2. CASE UNCHANGED env_ipc_from
    BY <2>2
  <2> QED BY <2>1, <2>2
          DEF Handlers, env_create, enable_irq, timer_irq, sys_yield, sys_exofork,
              sys_exofork_no_asid, sys_set_env_status, sys_ipc_recv,
              sys_env_destroy, ipcFields, kernelVars
<1> QED BY <1>1, <1>2, InitBlocking, StepHandles, PTL DEF Spec, MessageNotOverwritten

-----------------------------------------------------------------------------
(***************************************************************************)
(* The run queue: the links of env_sched_list always spell out the runnable *)
(* environments, for every number of slots.                                 *)
(***************************************************************************)

(* Induction, from the arithmetic of finite sets.                          *)

\* A set that holds 0 and every successor holds all numbers: otherwise k -> k + 1
\* would map the members up to a missing number injectively into all but 0.
LEMMA SetInduction ==
    ASSUME NEW S, 0 \in S, \A n \in Nat : n \in S => n + 1 \in S
    PROVE  \A n \in Nat : n \in S
<1> SUFFICES ASSUME NEW n \in Nat, n \notin S PROVE FALSE
  OBVIOUS
<1>1. PICK T : T = {k \in 0..n : k \in S}
  OBVIOUS
<1>2. IsFiniteSet(T) /\ Cardinality(T) \in Nat
  <2>1. IsFiniteSet(0..n) /\ T \in SUBSET (0..n)
    BY <1>1, FS_Interval
  <2> QED BY <2>1, FS_Subset, FS_CardinalityType
<1>3. PICK f : f = [k \in T |-> k + 1]
  OBVIOUS
<1>4. f \in Injection(T, T \ {0})
  <2>1. \A k \in T : k \in Nat /\ k + 1 \in T \ {0}
    BY <1>1
  <2>2. f \in [T -> T \ {0}]
    BY <1>3, <2>1
  <2>3. \A a, b \in T : f[a] = f[b] => a = b
    BY <1>3, <2>1
  <2> QED BY <2>2, <2>3 DEF Injection, IsInjective
<1>5. 0 \in T
  BY <1>1
<1>6. IsFiniteSet(T \ {0}) /\ Cardinality(T \ {0}) = Cardinality(T) - 1
  BY <1>2, <1>5, FS_RemoveElement
<1>7. Cardinality(T) <= Cardinality(T \ {0})
  BY <1>4, <1>6, FS_Injection
<1> QED BY <1>2, <1>6, <1>7

-----------------------------------------------------------------------------
(* A queue and the sequence its links stand for.                           *)

\* The links of q spell out the n elements of s, each once, in both directions.
Spells(q, n, s) ==
    /\ n \in Nat /\ s \in [1..n -> Env] /\ q \in TailqType
    /\ \A i, j \in 1..n : s[i] = s[j] => i = j
    /\ q.tqh_first = IF n = 0 THEN NULL ELSE s[1]
    /\ q.tqh_last = IF n = 0 THEN HEAD ELSE s[n]
    /\ \A i \in 1..n : q.tqe_next[s[i]] = IF i = n THEN NULL ELSE s[i + 1]
    /\ \A i \in 1..n : q.tqe_prev[s[i]] = IF i = 1 THEN HEAD ELSE s[i - 1]

In(n, s, e) == \E i \in 1..n : s[i] = e

\* The walk of TAILQ_FOREACH meets the elements of s in their order.
LEMMA WalkSpells ==
    ASSUME NEW q, NEW n, NEW s, Spells(q, n, s)
    PROVE  \A k \in Nat : NthElem(q, k) = IF k < n THEN s[k + 1] ELSE NULL
<1>0. n \in Nat /\ s \in [1..n -> Env] /\ \A i \in 1..n : s[i] # NULL
  BY NullAssumption DEF Spells
<1>1. PICK at : at = CHOOSE walk : walk = [k \in Nat |-> IF k = 0 THEN q.tqh_first
                         ELSE IF walk[k-1] = NULL THEN NULL
                         ELSE q.tqe_next[walk[k-1]]]
  OBVIOUS
<1>2. \A k : NthElem(q, k) = at[k]
  BY <1>1 DEF NthElem
<1>3. PICK f : f = [k \in Nat |-> IF k < n THEN s[k + 1] ELSE NULL]
  OBVIOUS
<1>4. f = [k \in Nat |-> IF k = 0 THEN q.tqh_first
                         ELSE IF f[k-1] = NULL THEN NULL
                         ELSE q.tqe_next[f[k-1]]]
  <2> SUFFICES ASSUME NEW k \in Nat
               PROVE  f[k] = IF k = 0 THEN q.tqh_first
                             ELSE IF f[k-1] = NULL THEN NULL ELSE q.tqe_next[f[k-1]]
    BY <1>3
  <2>1. CASE k = 0
    BY <1>0, <1>3, <2>1 DEF Spells
  <2>2. CASE k # 0 /\ k - 1 < n
    <3>1. k - 1 \in Nat /\ k \in 1..n /\ (k - 1) + 1 = k
      BY <1>0, <2>2
    <3>2. f[k - 1] = s[k]
      BY <1>3, <2>2, <3>1
    <3>3. q.tqe_next[s[k]] = IF k = n THEN NULL ELSE s[k + 1]
      BY <3>1 DEF Spells
    <3>4. f[k] = IF k < n THEN s[k + 1] ELSE NULL
      BY <1>3
    <3>5. s[k] # NULL /\ (k < n <=> k # n)
      BY <1>0, <3>1
    <3> QED BY <2>2, <3>2, <3>3, <3>4, <3>5
  <2>3. CASE k # 0 /\ ~(k - 1 < n)
    <3>1. k - 1 \in Nat /\ ~(k < n)
      BY <1>0, <2>3
    <3>2. f[k - 1] = NULL /\ f[k] = NULL
      BY <1>3, <2>3, <3>1
    <3> QED BY <2>3, <3>2
  <2> QED BY <2>1, <2>2, <2>3
<1>5. at = [k \in Nat |-> IF k = 0 THEN q.tqh_first
                         ELSE IF at[k-1] = NULL THEN NULL
                         ELSE q.tqe_next[at[k-1]]]
  BY <1>1, <1>4, Zenon
<1>6. \A k \in Nat : k \in {m \in Nat : at[m] = f[m]}
  <2>1. PICK S : S = {m \in Nat : at[m] = f[m]}
    OBVIOUS
  <2>2. at[0] = q.tqh_first /\ f[0] = q.tqh_first
    <3>1. at[0] = q.tqh_first
      BY <1>5
    <3>2. f[0] = q.tqh_first
      BY <1>4
    <3> QED BY <3>1, <3>2
  <2>3. ASSUME NEW k \in Nat, k \in S PROVE k + 1 \in S
    <3>1. k + 1 \in Nat /\ (k + 1) - 1 = k /\ k + 1 # 0
      OBVIOUS
    <3>2. at[k + 1] = IF at[k] = NULL THEN NULL ELSE q.tqe_next[at[k]]
      BY <1>5, <3>1
    <3>3. f[k + 1] = IF f[k] = NULL THEN NULL ELSE q.tqe_next[f[k]]
      BY <1>4, <3>1
    <3> QED BY <2>1, <2>3, <3>1, <3>2, <3>3
  <2>4. 0 \in S
    BY <2>1, <2>2
  <2>5. \A k \in Nat : k \in S
    BY <2>3, <2>4, SetInduction
  <2> QED BY <2>1, <2>5
<1> QED BY <1>2, <1>3, <1>6

\* A queue holds at most all elements.
LEMMA LengthBound ==
    ASSUME NEW q, NEW n, NEW s, Spells(q, n, s)
    PROVE  /\ Cardinality(Env) = NENV /\ n <= NENV
           /\ \A T : T = {s[i] : i \in 1..n} => IsFiniteSet(T) /\ Cardinality(T) = n
<1>0. n \in Nat /\ s \in [1..n -> Env] /\ \A i, j \in 1..n : s[i] = s[j] => i = j
  BY DEF Spells
<1>1. IsFiniteSet(Env) /\ Cardinality(Env) = NENV
  BY FS_Interval, SizesAssumption DEF Env
<1>2. s \in Injection(1..n, Env)
  BY <1>0 DEF Injection, IsInjective
<1>3. IsFiniteSet(1..n) /\ Cardinality(1..n) = n
  BY <1>0, FS_Interval
<1>4. n <= NENV
  BY <1>1, <1>2, <1>3, FS_Injection
<1>5. ASSUME NEW T, T = {s[i] : i \in 1..n} PROVE IsFiniteSet(T) /\ Cardinality(T) = n
  <2>1. T \in SUBSET Env
    BY <1>0, <1>5
  <2>2. IsFiniteSet(T)
    BY <1>1, <2>1, FS_Subset
  <2>3. s \in [1..n -> T]
    BY <1>0, <1>5
  <2>4. s \in Injection(1..n, T)
    BY <1>0, <2>3 DEF Injection, IsInjective
  <2>5. s \in Surjection(1..n, T)
    BY <1>5, <2>3 DEF Surjection
  <2>6. Cardinality(1..n) = Cardinality(T)
    BY <2>2, <2>4, <2>5, FS_Injection
  <2> QED BY <1>3, <2>2, <2>6
<1> QED BY <1>1, <1>4, <1>5

\* What the readers of such a queue see.
LEMMA SpellsSeen ==
    ASSUME NEW q, NEW n, NEW s, Spells(q, n, s)
    PROVE  /\ \A e : e \in Linked(q) <=> In(n, s, e)
           /\ WellLinked(q)
           /\ AsSequence(q) = s
<1>0. /\ n \in Nat /\ s \in [1..n -> Env] /\ \A i \in 1..n : s[i] # NULL
      /\ n <= NENV /\ NENV \in Nat /\ Cardinality(Env) = NENV
  <2>1. Cardinality(Env) = NENV /\ n <= NENV
    BY LengthBound
  <2> QED BY <2>1, NullAssumption, SizesAssumption DEF Spells
<1>1. \A k \in Nat : NthElem(q, k) = IF k < n THEN s[k + 1] ELSE NULL
  BY WalkSpells
<1>2. Linked(q) = {s[i] : i \in 1..n}
  <2>0. Linked(q) = {NthElem(q, k) : k \in 0..NENV} \ {NULL}
    BY <1>0 DEF Linked
  <2>1. ASSUME NEW e \in Linked(q) PROVE e \in {s[i] : i \in 1..n}
    <3>1. PICK k \in 0..NENV : e = NthElem(q, k) /\ e # NULL
      BY <2>0
    <3>2. k \in Nat /\ k < n /\ e = s[k + 1] /\ k + 1 \in 1..n
      BY <1>0, <1>1, <3>1
    <3> QED BY <3>2
  <2>2. ASSUME NEW i \in 1..n PROVE s[i] \in Linked(q)
    <3>1. i - 1 \in 0..NENV /\ i - 1 \in Nat /\ i - 1 < n /\ (i - 1) + 1 = i
      BY <1>0
    <3>2. NthElem(q, i - 1) = s[i]
      BY <1>1, <3>1
    <3> QED BY <1>0, <2>0, <3>1, <3>2
  <2> QED BY <2>1, <2>2
<1>3. \A e : e \in Linked(q) <=> In(n, s, e)
  BY <1>2 DEF In
<1>4. WellLinked(q)
  <2>1. NthElem(q, Cardinality(Env)) = NULL
    BY <1>0, <1>1
  <2>2. ASSUME NEW e \in Linked(q)
        PROVE  IF q.tqh_first = e THEN q.tqe_prev[e] = HEAD
               ELSE q.tqe_prev[e] \in Linked(q) /\ q.tqe_next[q.tqe_prev[e]] = e
    <3>1. PICK i \in 1..n : e = s[i]
      BY <1>2
    <3>2. q.tqe_prev[e] = IF i = 1 THEN HEAD ELSE s[i - 1]
      BY <3>1 DEF Spells
    <3>3. q.tqh_first = e <=> i = 1
      BY <1>0, <3>1 DEF Spells
    <3>4. CASE i = 1
      BY <3>2, <3>3, <3>4
    <3>5. CASE i # 1
      <4>1. i - 1 \in 1..n /\ i - 1 # n /\ (i - 1) + 1 = i
        BY <1>0, <3>5
      <4>2. q.tqe_next[s[i - 1]] = s[i]
        BY <4>1 DEF Spells
      <4> QED BY <1>2, <3>1, <3>2, <3>3, <3>5, <4>1, <4>2
    <3> QED BY <3>4, <3>5
  <2>3. IF q.tqh_first = NULL THEN q.tqh_last = HEAD
        ELSE q.tqh_last \in Linked(q) /\ q.tqe_next[q.tqh_last] = NULL
    <3>1. CASE n = 0
      BY <3>1 DEF Spells
    <3>2. CASE n # 0
      <4>1. 1 \in 1..n /\ n \in 1..n
        BY <1>0, <3>2
      <4>2. q.tqh_first = s[1] /\ q.tqh_last = s[n] /\ q.tqe_next[s[n]] = NULL
        BY <3>2, <4>1 DEF Spells
      <4> QED BY <1>0, <1>2, <4>1, <4>2
    <3> QED BY <3>1, <3>2
  <2> QED BY <2>1, <2>2, <2>3 DEF WellLinked
<1>5. AsSequence(q) = s
  <2>1. Cardinality(Linked(q)) = n
    BY <1>2, LengthBound
  <2>2. \A i \in 1..n : NthElem(q, i - 1) = s[i]
    <3> SUFFICES ASSUME NEW i \in 1..n PROVE NthElem(q, i - 1) = s[i]
      OBVIOUS
    <3>1. i - 1 \in Nat /\ i - 1 < n /\ (i - 1) + 1 = i
      BY <1>0
    <3> QED BY <1>1, <3>1
  <2>3. AsSequence(q) = [i \in 1..n |-> NthElem(q, i - 1)]
    BY <2>1 DEF AsSequence
  <2> QED BY <1>0, <2>2, <2>3
<1> QED BY <1>3, <1>4, <1>5

-----------------------------------------------------------------------------
(* The macros of queue.h, on the sequence.                                 *)

Insert(n, s, e) == [k \in 1..(n + 1) |-> IF k <= n THEN s[k] ELSE e]
Push(n, s, e) == [k \in 1..(n + 1) |-> IF k = 1 THEN e ELSE s[k - 1]]
Delete(n, s, i) == [k \in 1..(n - 1) |-> IF k < i THEN s[k] ELSE s[k + 1]]

LEMMA InsertTailSpells ==
    ASSUME NEW q, NEW n, NEW s, Spells(q, n, s), NEW e \in Env, ~In(n, s, e)
    PROVE  Spells(TAILQ_INSERT_TAIL(q, e), n + 1, Insert(n, s, e))
<1>0. /\ n \in Nat /\ s \in [1..n -> Env] /\ q \in TailqType
      /\ \A i \in 1..n : s[i] # e /\ s[i] # NULL /\ s[i] # HEAD
      /\ e # NULL /\ e # HEAD /\ HEAD # NULL
  BY NullAssumption DEF Spells, In
<1>1. PICK t : t = Insert(n, s, e)
  OBVIOUS
<1>2. /\ n + 1 \in Nat /\ t \in [1..(n + 1) -> Env] /\ t[n + 1] = e
      /\ \A k \in 1..n : t[k] = s[k]
      /\ \A k \in 1..(n + 1) : k \in 1..n \/ k = n + 1
  BY <1>0, <1>1 DEF Insert
<1>3. \A i, j \in 1..(n + 1) : t[i] = t[j] => i = j
  BY <1>0, <1>2 DEF Spells
<1>4. PICK r : r = TAILQ_INSERT_TAIL(q, e)
  OBVIOUS
<1>5. r \in TailqType
  <2>1. PointersIn(q, Env)
    BY <1>0 DEF PointersIn, TailqType
  <2> QED BY <1>0, <1>4, <2>1, InsertTailType
<1>6. CASE n = 0
  <2>1. q.tqh_last = HEAD
    BY <1>6 DEF Spells
  <2>2. r = [q EXCEPT !.tqe_next = [@ EXCEPT ![e] = NULL], !.tqe_prev = [@ EXCEPT ![e] = HEAD],
                      !.tqh_first = e, !.tqh_last = e]
    BY <1>0, <1>4, <2>1 DEF TAILQ_INSERT_TAIL, Store, TailqType
  <2>3. /\ r.tqh_first = e /\ r.tqh_last = e
        /\ r.tqe_next[e] = NULL /\ r.tqe_prev[e] = HEAD
    BY <1>0, <2>2 DEF TailqType
  <2> QED BY <1>1, <1>2, <1>3, <1>4, <1>5, <1>6, <2>3 DEF Spells
<1>7. CASE n # 0
  <2>0. n \in 1..n /\ 1 \in 1..n
    BY <1>0, <1>7
  <2>1. q.tqh_last = s[n] /\ q.tqh_first = s[1] /\ s[n] \in Env /\ s[n] # HEAD /\ s[n] # e
    BY <1>0, <1>7, <2>0 DEF Spells
  <2>2. r = [q EXCEPT !.tqe_next = [[@ EXCEPT ![e] = NULL] EXCEPT ![s[n]] = e],
                      !.tqe_prev = [@ EXCEPT ![e] = s[n]], !.tqh_last = e]
    BY <1>0, <1>4, <2>1 DEF TAILQ_INSERT_TAIL, Store, TailqType
  <2>3. /\ r.tqh_first = s[1] /\ r.tqh_last = e
        /\ r.tqe_next[e] = NULL /\ r.tqe_prev[e] = s[n] /\ r.tqe_next[s[n]] = e
        /\ \A x \in Env \ {e} : r.tqe_prev[x] = q.tqe_prev[x]
        /\ \A x \in Env \ {e, s[n]} : r.tqe_next[x] = q.tqe_next[x]
    BY <1>0, <2>1, <2>2 DEF TailqType
  <2>4. ASSUME NEW i \in 1..(n + 1)
        PROVE  /\ r.tqe_next[t[i]] = IF i = n + 1 THEN NULL ELSE t[i + 1]
               /\ r.tqe_prev[t[i]] = IF i = 1 THEN HEAD ELSE t[i - 1]
    <3>1. CASE i = n + 1
      <4>1. i - 1 = n /\ i # 1
        BY <1>0, <1>7, <3>1
      <4> QED BY <1>2, <2>0, <2>3, <3>1, <4>1
    <3>2. CASE i = n
      <4>1. t[i] = s[n] /\ t[i + 1] = e /\ i # n + 1
        BY <1>0, <1>2, <2>0, <3>2
      <4>2. r.tqe_prev[s[n]] = IF n = 1 THEN HEAD ELSE s[n - 1]
        BY <1>0, <2>0, <2>1, <2>3 DEF Spells
      <4>3. n # 1 => n - 1 \in 1..n
        BY <1>0, <1>7
      <4> QED BY <1>2, <2>3, <3>2, <4>1, <4>2, <4>3
    <3>3. CASE i # n + 1 /\ i # n
      <4>1. i \in 1..n /\ i + 1 \in 1..n /\ (i # 1 => i - 1 \in 1..n)
        BY <1>0, <3>3
      <4>2. t[i] = s[i] /\ t[i + 1] = s[i + 1] /\ (i # 1 => t[i - 1] = s[i - 1])
        BY <1>2, <4>1
      <4>3. s[i] \in Env \ {e, s[n]}
        BY <1>0, <2>0, <3>3, <4>1 DEF Spells
      <4>4. /\ q.tqe_next[s[i]] = s[i + 1]
            /\ q.tqe_prev[s[i]] = IF i = 1 THEN HEAD ELSE s[i - 1]
        BY <3>3, <4>1 DEF Spells
      <4> QED BY <2>3, <3>3, <4>2, <4>3, <4>4
    <3> QED BY <3>1, <3>2, <3>3
  <2>5. r.tqh_first = t[1] /\ r.tqh_last = t[n + 1] /\ n + 1 # 0
    BY <1>0, <1>2, <2>0, <2>3
  <2> QED BY <1>1, <1>2, <1>3, <1>4, <1>5, <2>4, <2>5 DEF Spells
<1> QED BY <1>6, <1>7

LEMMA InsertHeadSpells ==
    ASSUME NEW q, NEW n, NEW s, Spells(q, n, s), NEW e \in Env, ~In(n, s, e)
    PROVE  Spells(TAILQ_INSERT_HEAD(q, e), n + 1, Push(n, s, e))
<1>0. /\ n \in Nat /\ s \in [1..n -> Env] /\ q \in TailqType
      /\ \A i \in 1..n : s[i] # e /\ s[i] # NULL /\ s[i] # HEAD
      /\ e # NULL /\ e # HEAD /\ HEAD # NULL
  BY NullAssumption DEF Spells, In
<1>1. PICK t : t = Push(n, s, e)
  OBVIOUS
<1>2. /\ n + 1 \in Nat /\ t \in [1..(n + 1) -> Env] /\ t[1] = e
      /\ \A k \in 2..(n + 1) : t[k] = s[k - 1] /\ k - 1 \in 1..n
      /\ \A k \in 1..(n + 1) : k \in 2..(n + 1) \/ k = 1
  BY <1>0, <1>1 DEF Push
<1>3. \A i, j \in 1..(n + 1) : t[i] = t[j] => i = j
  BY <1>0, <1>2 DEF Spells
<1>4. PICK r : r = TAILQ_INSERT_HEAD(q, e)
  OBVIOUS
<1>5. r \in TailqType
  <2>1. PointersIn(q, Env)
    BY <1>0 DEF PointersIn, TailqType
  <2> QED BY <1>0, <1>4, <2>1, InsertHeadType
<1>6. CASE n = 0
  <2>1. q.tqh_first = NULL
    BY <1>6 DEF Spells
  <2>2. r = [q EXCEPT !.tqe_next = [@ EXCEPT ![e] = NULL], !.tqe_prev = [@ EXCEPT ![e] = HEAD],
                      !.tqh_first = e, !.tqh_last = e]
    BY <1>0, <1>4, <2>1 DEF TAILQ_INSERT_HEAD, TailqType
  <2>3. /\ r.tqh_first = e /\ r.tqh_last = e
        /\ r.tqe_next[e] = NULL /\ r.tqe_prev[e] = HEAD
    BY <1>0, <2>2 DEF TailqType
  <2> QED BY <1>1, <1>2, <1>3, <1>4, <1>5, <1>6, <2>3 DEF Spells
<1>7. CASE n # 0
  <2>0. n \in 1..n /\ 1 \in 1..n
    BY <1>0, <1>7
  <2>1. q.tqh_first = s[1] /\ q.tqh_last = s[n] /\ s[1] \in Env /\ s[1] # NULL /\ s[1] # e
    BY <1>0, <1>7, <2>0 DEF Spells
  <2>2. r = [q EXCEPT !.tqe_next = [@ EXCEPT ![e] = s[1]],
                      !.tqe_prev = [[@ EXCEPT ![s[1]] = e] EXCEPT ![e] = HEAD], !.tqh_first = e]
    BY <1>0, <1>4, <2>1 DEF TAILQ_INSERT_HEAD, TailqType
  <2>3. /\ r.tqh_first = e /\ r.tqh_last = s[n]
        /\ r.tqe_next[e] = s[1] /\ r.tqe_prev[e] = HEAD /\ r.tqe_prev[s[1]] = e
        /\ \A x \in Env \ {e} : r.tqe_next[x] = q.tqe_next[x]
        /\ \A x \in Env \ {e, s[1]} : r.tqe_prev[x] = q.tqe_prev[x]
    BY <1>0, <2>1, <2>2 DEF TailqType
  <2>4. ASSUME NEW i \in 1..(n + 1)
        PROVE  /\ r.tqe_next[t[i]] = IF i = n + 1 THEN NULL ELSE t[i + 1]
               /\ r.tqe_prev[t[i]] = IF i = 1 THEN HEAD ELSE t[i - 1]
    <3>1. CASE i = 1
      <4>1. i # n + 1 /\ i + 1 \in 2..(n + 1) /\ (i + 1) - 1 = 1
        BY <1>0, <1>7, <3>1
      <4>2. t[i + 1] = s[1]
        BY <1>2, <4>1
      <4> QED BY <1>2, <2>3, <3>1, <4>1, <4>2
    <3>2. CASE i # 1
      <4>1. i \in 2..(n + 1) /\ i - 1 \in 1..n /\ (i - 1 = n <=> i = n + 1) /\ (i - 1) + 1 = i
        BY <1>0, <3>2
      <4>2. t[i] = s[i - 1] /\ s[i - 1] \in Env /\ s[i - 1] # e
        BY <1>0, <1>2, <4>1
      <4>3. /\ q.tqe_next[s[i - 1]] = IF i = n + 1 THEN NULL ELSE s[i]
            /\ q.tqe_prev[s[i - 1]] = IF i - 1 = 1 THEN HEAD ELSE s[(i - 1) - 1]
        BY <4>1 DEF Spells
      <4>4. i # n + 1 => t[i + 1] = s[i]
        <5>1. i # n + 1 => i + 1 \in 2..(n + 1) /\ (i + 1) - 1 = i
          BY <1>0, <4>1
        <5> QED BY <1>2, <5>1
      <4>5. r.tqe_next[t[i]] = IF i = n + 1 THEN NULL ELSE t[i + 1]
        BY <2>3, <4>2, <4>3, <4>4
      <4>6. CASE i = 2
        <5>1. i - 1 = 1
          BY <4>6
        <5> QED BY <1>2, <2>3, <3>2, <4>2, <4>5, <5>1
      <4>7. CASE i # 2
        <5>1. i - 1 \in 2..(n + 1) /\ i - 1 # 1 /\ s[i - 1] # s[1]
          BY <1>0, <2>0, <4>1, <4>7 DEF Spells
        <5>2. t[i - 1] = s[(i - 1) - 1]
          BY <1>2, <5>1
        <5> QED BY <2>3, <3>2, <4>2, <4>3, <4>5, <5>1, <5>2
      <4> QED BY <4>6, <4>7
    <3> QED BY <3>1, <3>2
  <2>5. r.tqh_first = t[1] /\ r.tqh_last = t[n + 1] /\ n + 1 # 0
    <3>1. n + 1 \in 2..(n + 1) /\ (n + 1) - 1 = n /\ n + 1 # 0
      BY <1>0, <1>7
    <3> QED BY <1>2, <2>3, <3>1
  <2> QED BY <1>1, <1>2, <1>3, <1>4, <1>5, <2>4, <2>5 DEF Spells
<1> QED BY <1>6, <1>7

\* TAILQ_REMOVE of a linked element takes it out of the sequence, leaves its own
\* links as they were, and done once more changes nothing.
LEMMA RemoveSpells ==
    ASSUME NEW q, NEW n, NEW s, Spells(q, n, s), NEW i \in 1..n, NEW e, e = s[i]
    PROVE  /\ Spells(TAILQ_REMOVE(q, e), n - 1, Delete(n, s, i))
           /\ TAILQ_REMOVE(TAILQ_REMOVE(q, e), e) = TAILQ_REMOVE(q, e)
           /\ ~RemoveFaults(q, e) /\ ~RemoveFaults(TAILQ_REMOVE(q, e), e)
<1>0. /\ n \in Nat /\ s \in [1..n -> Env] /\ q \in TailqType /\ i \in Nat
      /\ \A k \in 1..n : s[k] # NULL /\ s[k] # HEAD /\ s[k] \in Env
      /\ \A k \in 1..n : s[k] = e => k = i
      /\ e \in Env /\ e # NULL /\ e # HEAD /\ HEAD # NULL
  BY NullAssumption DEF Spells
<1>1. PICK next : next = IF i = n THEN NULL ELSE s[i + 1]
  OBVIOUS
<1>2. PICK prev : prev = IF i = 1 THEN HEAD ELSE s[i - 1]
  OBVIOUS
<1>3. q.tqe_next[e] = next /\ q.tqe_prev[e] = prev
  BY <1>1, <1>2 DEF Spells
<1>i. /\ i # n => i + 1 \in 1..n
      /\ i # 1 => i - 1 \in 1..n
      /\ 1 \in 1..n /\ n \in 1..n /\ n # 0
  BY <1>0
<1>4. /\ i # n => next \in Env /\ next # NULL /\ next # e
      /\ i # 1 => prev \in Env /\ prev # HEAD /\ prev # NULL /\ prev # e
      /\ prev # NULL
  BY <1>0, <1>1, <1>2, <1>i
<1>5. PICK r : r = TAILQ_REMOVE(q, e)
  OBVIOUS
<1>6. r \in TailqType
  <2>1. PointersIn(q, Env)
    BY <1>0 DEF PointersIn, TailqType
  <2> QED BY <1>0, <1>5, <2>1, RemoveType
<1>7. /\ r.tqh_first = IF i = 1 THEN next ELSE q.tqh_first
      /\ r.tqh_last = IF i = n THEN prev ELSE q.tqh_last
      /\ \A x \in Env : r.tqe_next[x] = IF i # 1 /\ x = prev THEN next ELSE q.tqe_next[x]
      /\ \A x \in Env : r.tqe_prev[x] = IF i # n /\ x = next THEN prev ELSE q.tqe_prev[x]
  <2>1. PICK back : back = IF i # n THEN [q EXCEPT !.tqe_prev[next] = prev]
                           ELSE [q EXCEPT !.tqh_last = prev]
    OBVIOUS
  <2>2. r = Store(back, prev, next)
    BY <1>1, <1>3, <1>4, <1>5, <2>1 DEF TAILQ_REMOVE
  <2>3. /\ back.tqh_first = q.tqh_first /\ back.tqh_last = IF i = n THEN prev ELSE q.tqh_last
        /\ back.tqe_next = q.tqe_next
        /\ \A x \in Env : back.tqe_prev[x] = IF i # n /\ x = next THEN prev ELSE q.tqe_prev[x]
    BY <1>0, <1>4, <2>1 DEF TailqType
  <2>4. back \in TailqType
    BY <1>0, <1>2, <1>4, <2>1 DEF TailqType
  <2>5. CASE i = 1
    <3>1. r = [back EXCEPT !.tqh_first = next]
      BY <1>2, <2>2, <2>5 DEF Store
    <3> QED BY <2>3, <2>4, <2>5, <3>1 DEF TailqType
  <2>6. CASE i # 1
    <3>1. r = [back EXCEPT !.tqe_next[prev] = next]
      BY <1>4, <2>2, <2>6 DEF Store
    <3> QED BY <1>4, <2>3, <2>4, <2>6, <3>1 DEF TailqType
  <2> QED BY <2>5, <2>6
<1>8. PICK t : t = Delete(n, s, i)
  OBVIOUS
<1>9. /\ n - 1 \in Nat /\ t \in [1..(n - 1) -> Env]
      /\ \A k \in 1..(n - 1) : /\ k \in 1..n /\ k + 1 \in 1..n
                               /\ t[k] = IF k < i THEN s[k] ELSE s[k + 1]
  BY <1>0, <1>i, <1>8 DEF Delete
<1>10. \A j, k \in 1..(n - 1) : t[j] = t[k] => j = k
  <2> SUFFICES ASSUME NEW j \in 1..(n - 1), NEW k \in 1..(n - 1), t[j] = t[k] PROVE j = k
    OBVIOUS
  <2>1. PICK a \in 1..n : t[j] = s[a] /\ a = IF j < i THEN j ELSE j + 1
    BY <1>9
  <2>2. PICK b \in 1..n : t[k] = s[b] /\ b = IF k < i THEN k ELSE k + 1
    BY <1>9
  <2>3. \A x, y \in 1..n : s[x] = s[y] => x = y
    BY DEF Spells
  <2>4. j \in Nat /\ k \in Nat
    OBVIOUS
  <2>5. a = b
    <3>1. s[a] = s[b]
      BY <2>1, <2>2, Zenon
    <3> QED BY <2>3, <3>1
  <2> QED BY <1>0, <2>1, <2>2, <2>4, <2>5
<1>11. r.tqh_first = IF n - 1 = 0 THEN NULL ELSE t[1]
  <2>1. CASE n = 1
    BY <1>0, <1>1, <1>7, <2>1
  <2>2. CASE n # 1
    <3>1. 1 \in 1..(n - 1) /\ n - 1 # 0
      BY <1>0, <1>i, <2>2
    <3>2. t[1] = IF 1 < i THEN s[1] ELSE s[2]
      BY <1>9, <3>1
    <3>3. CASE i = 1
      BY <1>1, <1>7, <2>2, <3>1, <3>2, <3>3
    <3>4. CASE i # 1
      <4>1. 1 < i /\ q.tqh_first = s[1]
        BY <1>0, <1>i, <3>4 DEF Spells
      <4> QED BY <1>7, <3>1, <3>2, <3>4, <4>1
    <3> QED BY <3>3, <3>4
  <2> QED BY <2>1, <2>2
<1>12. r.tqh_last = IF n - 1 = 0 THEN HEAD ELSE t[n - 1]
  <2>1. CASE n = 1
    BY <1>0, <1>2, <1>7, <2>1
  <2>2. CASE n # 1
    <3>1. n - 1 \in 1..(n - 1) /\ n - 1 # 0 /\ (n - 1) + 1 = n
      BY <1>0, <1>i, <2>2
    <3>2. t[n - 1] = IF n - 1 < i THEN s[n - 1] ELSE s[n]
      BY <1>9, <3>1
    <3>3. CASE i = n
      <4>1. n - 1 < i
        BY <1>0, <3>3
      <4> QED BY <1>2, <1>7, <2>2, <3>1, <3>2, <3>3, <4>1
    <3>4. CASE i # n
      <4>1. ~(n - 1 < i) /\ q.tqh_last = s[n]
        BY <1>0, <1>i, <3>4 DEF Spells
      <4> QED BY <1>7, <3>1, <3>2, <3>4, <4>1
    <3> QED BY <3>3, <3>4
  <2> QED BY <2>1, <2>2
<1>13. ASSUME NEW k \in 1..(n - 1)
       PROVE  r.tqe_next[t[k]] = IF k = n - 1 THEN NULL ELSE t[k + 1]
  <2>0. /\ k \in Nat /\ k \in 1..n /\ k + 1 \in 1..n
        /\ t[k] = IF k < i THEN s[k] ELSE s[k + 1]
    BY <1>0, <1>9
  <2>1. k # n - 1 => k + 1 \in 1..(n - 1) /\ t[k + 1] = IF k + 1 < i THEN s[k + 1] ELSE s[(k + 1) + 1]
    <3>1. k # n - 1 => k + 1 \in 1..(n - 1)
      BY <1>0, <2>0
    <3> QED BY <1>9, <3>1
  <2>2. CASE k + 1 < i
    <3>1. k # n - 1 /\ k # n /\ k < i /\ i # 1 /\ k # i - 1
      BY <1>0, <2>0, <2>2
    <3>2. s[k] # prev
      BY <1>2, <1>i, <2>0, <3>1 DEF Spells
    <3>3. q.tqe_next[s[k]] = s[k + 1]
      BY <2>0, <3>1 DEF Spells
    <3> QED BY <1>0, <1>7, <2>0, <2>1, <2>2, <3>1, <3>2, <3>3
  <2>3. CASE k + 1 = i
    <3>1. k < i /\ k = i - 1 /\ i # 1 /\ (k = n - 1 <=> i = n) /\ ~(k + 1 < i) /\ (k + 1) + 1 = i + 1
      BY <1>0, <2>0, <2>3
    <3>2. t[k] = prev
      BY <1>2, <2>0, <3>1
    <3>3. r.tqe_next[prev] = next
      BY <1>4, <1>7, <3>1
    <3> QED BY <1>1, <2>1, <3>1, <3>2, <3>3
  <2>4. CASE ~(k + 1 < i) /\ k + 1 # i
    <3>1. ~(k < i) /\ (k + 1 = n <=> k = n - 1) /\ (i # 1 => k + 1 # i - 1)
      BY <1>0, <2>0, <2>4
    <3>2. i # 1 => s[k + 1] # prev
      BY <1>2, <1>i, <2>0, <3>1 DEF Spells
    <3>3. q.tqe_next[s[k + 1]] = IF k + 1 = n THEN NULL ELSE s[(k + 1) + 1]
      BY <2>0 DEF Spells
    <3>4. r.tqe_next[s[k + 1]] = q.tqe_next[s[k + 1]]
      BY <1>0, <1>7, <2>0, <3>2
    <3> QED BY <2>0, <2>1, <2>4, <3>1, <3>3, <3>4
  <2> QED BY <2>2, <2>3, <2>4
<1>14. ASSUME NEW k \in 1..(n - 1)
       PROVE  r.tqe_prev[t[k]] = IF k = 1 THEN HEAD ELSE t[k - 1]
  <2>0. /\ k \in Nat /\ k \in 1..n /\ k + 1 \in 1..n
        /\ t[k] = IF k < i THEN s[k] ELSE s[k + 1]
    BY <1>0, <1>9
  <2>1. k # 1 => k - 1 \in 1..(n - 1) /\ t[k - 1] = IF k - 1 < i THEN s[k - 1] ELSE s[k]
    <3>1. k # 1 => k - 1 \in 1..(n - 1) /\ (k - 1) + 1 = k
      BY <1>0, <2>0
    <3> QED BY <1>9, <3>1
  <2>2. CASE k < i
    <3>1. k - 1 < i /\ (i # n => k # i + 1)
      BY <1>0, <2>0, <2>2
    <3>2. i # n => s[k] # next
      BY <1>1, <1>i, <2>0, <3>1 DEF Spells
    <3>3. q.tqe_prev[s[k]] = IF k = 1 THEN HEAD ELSE s[k - 1]
      BY <2>0 DEF Spells
    <3>4. r.tqe_prev[s[k]] = q.tqe_prev[s[k]]
      BY <1>0, <1>7, <2>0, <3>2
    <3> QED BY <2>0, <2>1, <2>2, <3>1, <3>3, <3>4
  <2>3. CASE k = i
    <3>1. ~(k < i) /\ k - 1 < i /\ i # n
      BY <1>0, <2>0, <2>3
    <3>2. t[k] = next
      BY <1>1, <2>0, <2>3, <3>1
    <3>3. r.tqe_prev[next] = prev
      BY <1>4, <1>7, <3>1
    <3> QED BY <1>2, <2>1, <2>3, <3>1, <3>2, <3>3
  <2>4. CASE ~(k < i) /\ k # i
    <3>1. k # 1 /\ ~(k - 1 < i) /\ k + 1 # 1 /\ (k + 1) - 1 = k /\ (i # n => k + 1 # i + 1)
      BY <1>0, <2>0, <2>4
    <3>2. i # n => s[k + 1] # next
      BY <1>1, <1>i, <2>0, <3>1 DEF Spells
    <3>3. q.tqe_prev[s[k + 1]] = s[k]
      BY <2>0, <3>1 DEF Spells
    <3>4. r.tqe_prev[s[k + 1]] = q.tqe_prev[s[k + 1]]
      BY <1>0, <1>7, <2>0, <3>2
    <3> QED BY <2>0, <2>1, <2>4, <3>1, <3>3, <3>4
  <2> QED BY <2>2, <2>3, <2>4
<1>15. Spells(r, n - 1, t)
  BY <1>6, <1>9, <1>10, <1>11, <1>12, <1>13, <1>14 DEF Spells
<1>16. r.tqe_next[e] = next /\ r.tqe_prev[e] = prev
  BY <1>0, <1>3, <1>4, <1>7
<1>17. TAILQ_REMOVE(r, e) = r
  <2>1. i # n => [r EXCEPT !.tqe_prev[next] = prev] = r
    <3>1. i # n => r.tqe_prev[next] = prev /\ next \in Env
      BY <1>4, <1>7
    <3> QED BY <1>6, <3>1 DEF TailqType
  <2>2. i = n => [r EXCEPT !.tqh_last = prev] = r
    <3>1. i = n => r.tqh_last = prev
      BY <1>7
    <3> QED BY <1>6, <3>1 DEF TailqType
  <2>3. Store(r, prev, next) = r
    <3>1. CASE i = 1
      <4>1. r.tqh_first = next /\ prev = HEAD
        BY <1>2, <1>7, <3>1
      <4> QED BY <1>6, <4>1 DEF Store, TailqType
    <3>2. CASE i # 1
      <4>1. r.tqe_next[prev] = next /\ prev \in Env /\ prev # HEAD
        BY <1>4, <1>7, <3>2
      <4> QED BY <1>6, <4>1 DEF Store, TailqType
    <3> QED BY <3>1, <3>2
  <2>4. next # NULL <=> i # n
    BY <1>1, <1>4
  <2> QED BY <1>16, <2>1, <2>2, <2>3, <2>4 DEF TAILQ_REMOVE
<1> QED BY <1>3, <1>4, <1>5, <1>8, <1>15, <1>16, <1>17 DEF RemoveFaults

-----------------------------------------------------------------------------
(* The invariant.                                                          *)

\* The links spell out exactly the environments that are runnable in status.
Queued(q, n, s, status) ==
    Spells(q, n, s) /\ \A x \in Env : In(n, s, x) <=> status[x] = "ENV_RUNNABLE"

Spelled == \E n, s : Queued(env_sched_list, n, s, env_status)

\* The running environment is the first in the queue.
HeadRuns == halted = "no" /\ curenv # NULL => env_sched_list.tqh_first = curenv

BootFirst == irq_on = FALSE => halted = "no" /\ curenv = NULL
IdlePanic == halted # "no" => halted = "no runnable envs" /\ env_sched_list.tqh_first = NULL

RunInv == BlockingInv /\ Spelled /\ HeadRuns /\ BootFirst /\ IdlePanic

\* An empty queue has nobody, and its first element is its head.
LEMMA FirstFacts ==
    ASSUME NEW q, NEW n, NEW s, Spells(q, n, s)
    PROVE  /\ q.tqh_first = NULL <=> n = 0
           /\ n # 0 => q.tqh_first = s[1] /\ 1 \in 1..n /\ s[1] \in Env
           /\ n = 0 => \A x : ~In(n, s, x)
  BY NullAssumption DEF Spells, In

\* Members of a sequence after an insertion or a removal.
LEMMA MemberFacts ==
    ASSUME NEW q, NEW n, NEW s, Spells(q, n, s)
    PROVE  /\ \A e, x : In(n + 1, Insert(n, s, e), x) <=> In(n, s, x) \/ x = e
           /\ \A e, x : In(n + 1, Push(n, s, e), x) <=> In(n, s, x) \/ x = e
           /\ \A i \in 1..n : \A x : In(n - 1, Delete(n, s, i), x) <=> In(n, s, x) /\ x # s[i]
<1>0. n \in Nat /\ \A i, j \in 1..n : s[i] = s[j] => i = j
  BY DEF Spells
<1>1. ASSUME NEW e, NEW x PROVE In(n + 1, Insert(n, s, e), x) <=> In(n, s, x) \/ x = e
  <2>0. PICK t : t = Insert(n, s, e)
    OBVIOUS
  <2>1. (\A k \in 1..n : k \in 1..(n + 1) /\ t[k] = s[k]) /\ n + 1 \in 1..(n + 1) /\ t[n + 1] = e
    BY <1>0, <2>0 DEF Insert
  <2>2. \A k \in 1..(n + 1) : k \in 1..n \/ k = n + 1
    BY <1>0
  <2>3. ASSUME In(n + 1, t, x) PROVE In(n, s, x) \/ x = e
    BY <2>1, <2>2, <2>3 DEF In
  <2>4. ASSUME In(n, s, x) \/ x = e PROVE In(n + 1, t, x)
    BY <2>1, <2>4 DEF In
  <2> QED BY <2>0, <2>3, <2>4
<1>2. ASSUME NEW e, NEW x PROVE In(n + 1, Push(n, s, e), x) <=> In(n, s, x) \/ x = e
  <2>0. PICK t : t = Push(n, s, e)
    OBVIOUS
  <2>1. /\ \A k \in 1..n : k + 1 \in 1..(n + 1) /\ t[k + 1] = s[k]
        /\ 1 \in 1..(n + 1) /\ t[1] = e
    BY <1>0, <2>0 DEF Push
  <2>2. \A k \in 1..(n + 1) : k = 1 \/ (k - 1 \in 1..n /\ t[k] = s[k - 1])
    BY <1>0, <2>0 DEF Push
  <2>3. ASSUME In(n + 1, t, x) PROVE In(n, s, x) \/ x = e
    BY <2>1, <2>2, <2>3 DEF In
  <2>4. ASSUME In(n, s, x) \/ x = e PROVE In(n + 1, t, x)
    BY <2>1, <2>4 DEF In
  <2> QED BY <2>0, <2>3, <2>4
<1>3. ASSUME NEW i \in 1..n, NEW x
      PROVE  In(n - 1, Delete(n, s, i), x) <=> In(n, s, x) /\ x # s[i]
  <2>0. PICK t : t = Delete(n, s, i)
    OBVIOUS
  <2>1. \A k \in 1..(n - 1) : /\ k \in 1..n /\ k + 1 \in 1..n
                              /\ t[k] = IF k < i THEN s[k] ELSE s[k + 1]
    BY <1>0, <2>0 DEF Delete
  <2>2. ASSUME In(n - 1, t, x) PROVE In(n, s, x) /\ x # s[i]
    <3>1. PICK k \in 1..(n - 1) : t[k] = x
      BY <2>2 DEF In
    <3>2. CASE k < i
      <4>1. x = s[k] /\ k \in 1..n /\ k # i
        BY <2>1, <3>1, <3>2
      <4> QED BY <1>0, <4>1 DEF In
    <3>3. CASE ~(k < i)
      <4>1. x = s[k + 1] /\ k + 1 \in 1..n /\ k + 1 # i
        BY <1>0, <2>1, <3>1, <3>3
      <4> QED BY <1>0, <4>1 DEF In
    <3> QED BY <3>2, <3>3
  <2>3. ASSUME In(n, s, x), x # s[i] PROVE In(n - 1, t, x)
    <3>1. PICK k \in 1..n : s[k] = x /\ k # i
      BY <2>3 DEF In
    <3>2. CASE k < i
      <4>1. k \in 1..(n - 1)
        BY <1>0, <3>2
      <4>2. t[k] = x
        BY <2>1, <3>1, <3>2, <4>1
      <4> QED BY <4>1, <4>2 DEF In
    <3>3. CASE ~(k < i)
      <4>1. k - 1 \in 1..(n - 1) /\ ~(k - 1 < i) /\ (k - 1) + 1 = k
        BY <1>0, <3>1, <3>3
      <4>2. t[k - 1] = x
        BY <2>1, <3>1, <4>1
      <4> QED BY <4>1, <4>2 DEF In
    <3> QED BY <3>2, <3>3
  <2> QED BY <2>0, <2>2, <2>3
<1> QED BY <1>1, <1>2, <1>3

\* What schedule() does to a queue that is in order.  The running environment is at
\* its front, or gone from it with its own links left as they were.
LEMMA ScheduleQueue ==
    ASSUME NEW yield \in BOOLEAN, NEW status \in [Env -> Statuses], halted = "no",
           NEW queue, NEW n, NEW s, Queued(queue, n, s, status),
           NEW e \in Env \cup {NULL},
           e # NULL /\ status[e] = "ENV_RUNNABLE" => queue.tqh_first = e,
           e # NULL /\ status[e] # "ENV_RUNNABLE" =>
               TAILQ_REMOVE(queue, e) = queue /\ ~RemoveFaults(queue, e),
           count \in Nat,
           schedule(yield, status, queue, e)
    PROVE  \/ /\ e # NULL /\ status[e] = "ENV_RUNNABLE" /\ count > 0 /\ ~yield
              /\ env_sched_list' = queue /\ curenv' = e /\ halted' = "no" /\ count' = count - 1
           \/ /\ e # NULL /\ status[e] = "ENV_RUNNABLE" /\ n # 0 /\ e = s[1]
              /\ Queued(env_sched_list', n, Insert(n - 1, Delete(n, s, 1), e), status)
              /\ curenv' = env_sched_list'.tqh_first /\ halted' = "no"
           \/ /\ e = NULL \/ status[e] # "ENV_RUNNABLE"
              /\ env_sched_list' = queue /\ n # 0
              /\ curenv' = s[1] /\ halted' = "no"
           \/ /\ e = NULL \/ status[e] # "ENV_RUNNABLE"
              /\ env_sched_list' = queue /\ n = 0
              /\ curenv' = e /\ halted' = "no runnable envs" /\ count' = count
<1>0. Spells(queue, n, s) /\ n \in Nat /\ \A x \in Env : In(n, s, x) <=> status[x] = "ENV_RUNNABLE"
  BY DEF Queued, Spells
<1>f. /\ queue.tqh_first = NULL <=> n = 0
      /\ n # 0 => queue.tqh_first = s[1] /\ 1 \in 1..n /\ s[1] \in Env
  BY <1>0, FirstFacts
<1>1. PICK runnable \in BOOLEAN : runnable = (e # NULL /\ status[e] = "ENV_RUNNABLE")
  OBVIOUS
<1>2. PICK removed : removed = IF e = NULL THEN queue ELSE TAILQ_REMOVE(queue, e)
  OBVIOUS
<1>3. PICK requeued : requeued = IF runnable THEN TAILQ_INSERT_TAIL(removed, e) ELSE removed
  OBVIOUS
<1>4. \/ /\ ~yield /\ count > 0 /\ runnable
         /\ count' = count - 1
         /\ env_sched_list' = queue
         /\ env_run(e, status, e)
      \/ IF e # NULL /\ RemoveFaults(queue, e)
         THEN /\ panic("address too low")
              /\ env_sched_list' = queue
              /\ UNCHANGED <<curenv, count>>
         ELSE /\ env_sched_list' = requeued
              /\ IF TAILQ_EMPTY(requeued)
                 THEN /\ panic("no runnable envs")
                      /\ curenv' = e /\ UNCHANGED count
                 ELSE env_run(TAILQ_FIRST(requeued), status, e)
  BY <1>1, <1>2, <1>3 DEF schedule
<1>5. CASE runnable = TRUE
  <2>1. e # NULL /\ e \in Env /\ status[e] = "ENV_RUNNABLE" /\ n # 0 /\ e = s[1] /\ 1 \in 1..n
    BY <1>1, <1>5, <1>f
  <2>2. /\ Spells(removed, n - 1, Delete(n, s, 1)) /\ ~RemoveFaults(queue, e)
    BY <1>0, <1>2, <2>1, RemoveSpells
  <2>3. \A x : In(n - 1, Delete(n, s, 1), x) <=> In(n, s, x) /\ x # e
    BY <1>0, <2>1, MemberFacts
  <2>4. Spells(requeued, (n - 1) + 1, Insert(n - 1, Delete(n, s, 1), e))
    BY <1>3, <1>5, <2>1, <2>2, <2>3, InsertTailSpells
  <2>5. \A x : In((n - 1) + 1, Insert(n - 1, Delete(n, s, 1), e), x)
                 <=> In(n - 1, Delete(n, s, 1), x) \/ x = e
    BY <2>2, MemberFacts
  <2>6. (n - 1) + 1 = n
    BY <1>0
  <2>7. Queued(requeued, n, Insert(n - 1, Delete(n, s, 1), e), status)
    BY <1>0, <2>1, <2>3, <2>4, <2>5, <2>6 DEF Queued
  <2>8. PICK t : t = Insert(n - 1, Delete(n, s, 1), e)
    OBVIOUS
  <2>9. requeued.tqh_first # NULL /\ requeued.tqh_first \in Env
        /\ status[requeued.tqh_first] = "ENV_RUNNABLE"
    <3>1. requeued.tqh_first = t[1] /\ t[1] \in Env /\ 1 \in 1..n
      BY <2>1, <2>4, <2>6, <2>8, FirstFacts
    <3>2. In(n, t, t[1])
      BY <3>1 DEF In
    <3> QED BY <2>7, <2>8, <3>1, <3>2, NullAssumption DEF Queued
  <2> QED BY <1>1, <1>4, <1>5, <2>1, <2>2, <2>7, <2>9
          DEF env_run, TAILQ_EMPTY, TAILQ_FIRST
<1>6. CASE runnable = FALSE
  <2>1. (e = NULL \/ status[e] # "ENV_RUNNABLE") /\ requeued = queue
        /\ ~(e # NULL /\ RemoveFaults(queue, e))
    BY <1>1, <1>2, <1>3, <1>6
  <2>2. n # 0 => status[s[1]] = "ENV_RUNNABLE"
    <3>1. n # 0 => In(n, s, s[1])
      BY <1>f DEF In
    <3> QED BY <1>0, <1>f, <3>1
  <2> QED BY <1>4, <1>6, <1>f, <2>1, <2>2 DEF env_run, panic, TAILQ_EMPTY, TAILQ_FIRST
<1> QED BY <1>5, <1>6

-----------------------------------------------------------------------------
(* The line of RoundRobin that a queue stands for.                         *)

LEMMA SequenceFacts ==
    ASSUME NEW n \in Nat, NEW s \in [1..n -> Env]
    PROVE  /\ s \in Seq(Env) /\ Len(s) = n
           /\ s = <<>> <=> n = 0
           /\ \A e \in Env : Append(s, e) = Insert(n, s, e)
           /\ \A e \in Env : <<e>> \o s = Push(n, s, e)
           /\ n # 0 => Head(s) = s[1] /\ Tail(s) = Delete(n, s, 1)
<1>1. s \in Seq(Env) /\ Len(s) = n
  OBVIOUS
<1>2. s = <<>> <=> n = 0
  BY <1>1
<1>3. ASSUME NEW e \in Env PROVE Append(s, e) = Insert(n, s, e)
  <2>1. PICK t : t = Append(s, e)
    OBVIOUS
  <2>2. t \in Seq(Env) /\ Len(t) = n + 1 /\ \A k \in 1..(n + 1) : t[k] = IF k <= n THEN s[k] ELSE e
    BY <1>1, <2>1
  <2>3. t = [k \in 1..(n + 1) |-> t[k]]
    BY <2>2
  <2>4. t = [k \in 1..(n + 1) |-> IF k <= n THEN s[k] ELSE e]
    BY <2>2, <2>3
  <2> QED BY <2>1, <2>4 DEF Insert
<1>4. ASSUME NEW e \in Env PROVE <<e>> \o s = Push(n, s, e)
  <2>1. PICK t : t = <<e>> \o s
    OBVIOUS
  <2>2. /\ t \in Seq(Env) /\ Len(t) = n + 1 /\ t[1] = e
        /\ \A k \in 2..(n + 1) : t[k] = s[k - 1]
    BY <1>1, <2>1, PushFacts
  <2>3. t = [k \in 1..(n + 1) |-> t[k]]
    BY <2>2
  <2>4. \A k \in 1..(n + 1) : t[k] = IF k = 1 THEN e ELSE s[k - 1]
    BY <2>2
  <2>5. t = [k \in 1..(n + 1) |-> IF k = 1 THEN e ELSE s[k - 1]]
    BY <2>3, <2>4
  <2> QED BY <2>1, <2>5 DEF Push
<1>5. ASSUME n # 0 PROVE Head(s) = s[1] /\ Tail(s) = Delete(n, s, 1)
  <2>0. s # <<>>
    BY <1>2, <1>5
  <2>1. PICK t : t = Tail(s)
    OBVIOUS
  <2>2. /\ Head(s) = s[1] /\ t \in Seq(Env) /\ Len(t) = n - 1
        /\ \A k \in 1..(n - 1) : t[k] = s[k + 1]
    BY <1>1, <2>0, <2>1, PopFacts
  <2>3. t = [k \in 1..(n - 1) |-> t[k]]
    BY <2>2
  <2>4. \A k \in 1..(n - 1) : t[k] = IF k < 1 THEN s[k] ELSE s[k + 1]
    BY <2>2
  <2>5. t = [k \in 1..(n - 1) |-> IF k < 1 THEN s[k] ELSE s[k + 1]]
    BY <2>3, <2>4
  <2> QED BY <2>1, <2>2, <2>5 DEF Delete
<1> QED BY <1>1, <1>2, <1>3, <1>4, <1>5

\* The same for the queue itself.
LEMMA LineFacts ==
    ASSUME NEW q, NEW n, NEW s, Spells(q, n, s)
    PROVE  /\ AsSequence(q) = s /\ Len(s) = n /\ (s = <<>> <=> n = 0)
           /\ {s[i] : i \in 1..Len(s)} = {x \in Env : In(n, s, x)}
           /\ \A e \in Env : Append(s, e) = Insert(n, s, e) /\ <<e>> \o s = Push(n, s, e)
           /\ n # 0 => /\ Head(s) = s[1] /\ Tail(s) = Delete(n, s, 1)
                       /\ Append(Tail(s), Head(s)) = Insert(n - 1, Delete(n, s, 1), s[1])
<1>0. n \in Nat /\ s \in [1..n -> Env]
  BY DEF Spells
<1>1. AsSequence(q) = s
  BY SpellsSeen
<1>2. /\ Len(s) = n
      /\ s = <<>> <=> n = 0
      /\ \A e \in Env : Append(s, e) = Insert(n, s, e)
      /\ \A e \in Env : <<e>> \o s = Push(n, s, e)
      /\ n # 0 => Head(s) = s[1] /\ Tail(s) = Delete(n, s, 1)
  BY <1>0, SequenceFacts
<1>3. {s[i] : i \in 1..Len(s)} = {x \in Env : In(n, s, x)}
  BY <1>0, <1>2 DEF In
<1>4. ASSUME n # 0 PROVE Append(Tail(s), Head(s)) = Insert(n - 1, Delete(n, s, 1), s[1])
  <2>1. n - 1 \in Nat /\ s[1] \in Env /\ 1 \in 1..n
    BY <1>0, <1>4
  <2>2. Delete(n, s, 1) \in [1..(n - 1) -> Env]
    BY <1>0, <2>1 DEF Delete
  <2>3. \A e \in Env : Append(Delete(n, s, 1), e) = Insert(n - 1, Delete(n, s, 1), e)
    BY <2>1, <2>2, SequenceFacts
  <2> QED BY <1>2, <1>4, <2>1, <2>3
<1> QED BY <1>1, <1>2, <1>3, <1>4

-----------------------------------------------------------------------------
(* The steps: each keeps the invariant and is a step of RoundRobin.        *)

LineStep == Line!RRNext \/ UNCHANGED Line!rrVars

\* A step that leaves queue, statuses and processor alone.
LEMMA IdleStep ==
    ASSUME RunInv, UNCHANGED <<env_sched_list, curenv, count, halted>>,
           irq_on = TRUE => irq_on' = TRUE,
           \A x \in Env : env_status'[x] = "ENV_RUNNABLE" <=> env_status[x] = "ENV_RUNNABLE"
    PROVE  Spelled' /\ HeadRuns' /\ (irq_on' = irq_on => BootFirst') /\ IdlePanic' /\ LineStep
<1>1. PICK n, s : Queued(env_sched_list, n, s, env_status)
  BY DEF RunInv, Spelled
<1>2. Queued(env_sched_list', n, s, env_status')
  BY <1>1 DEF Queued
<1>3. Spelled'
  BY <1>2 DEF Spelled
<1>4. HeadRuns' /\ IdlePanic' /\ (irq_on' = irq_on => BootFirst')
  BY DEF RunInv, HeadRuns, IdlePanic, BootFirst
<1>5. LineStep
  BY DEF LineStep, Line!rrVars
<1> QED BY <1>3, <1>4, <1>5

\* timer_irq and sys_yield.
LEMMA TurnStep ==
    ASSUME RunInv, irq_on = TRUE, halted = "no", NEW yield \in BOOLEAN,
           schedule(yield, env_status, env_sched_list, curenv), count' \in Nat,
           UNCHANGED <<env_status, irq_on>>
    PROVE  Spelled' /\ HeadRuns' /\ BootFirst' /\ IdlePanic' /\ LineStep
<1>0. /\ env_status \in [Env -> Statuses] /\ curenv \in Env \cup {NULL} /\ count \in Nat
      /\ curenv # NULL => env_status[curenv] = "ENV_RUNNABLE" /\ env_sched_list.tqh_first = curenv
  BY DEF RunInv, BlockingInv, StructInv, KernelTypeOK, CurenvRunnable, HeadRuns
<1>1. PICK n, s : Queued(env_sched_list, n, s, env_status)
  BY DEF RunInv, Spelled
<1>2. Spells(env_sched_list, n, s)
  BY <1>1 DEF Queued
<1>3. /\ AsSequence(env_sched_list) = s /\ (s = <<>> <=> n = 0)
      /\ n # 0 => /\ Head(s) = s[1]
                  /\ Append(Tail(s), Head(s)) = Insert(n - 1, Delete(n, s, 1), s[1])
  BY <1>2, LineFacts
<1>f. /\ env_sched_list.tqh_first = NULL <=> n = 0
      /\ n # 0 => env_sched_list.tqh_first = s[1] /\ s[1] \in Env
  BY <1>2, FirstFacts
<1>4. \/ /\ curenv # NULL /\ env_status[curenv] = "ENV_RUNNABLE" /\ count > 0 /\ ~yield
         /\ env_sched_list' = env_sched_list /\ curenv' = curenv /\ halted' = "no"
         /\ count' = count - 1
      \/ /\ curenv # NULL /\ env_status[curenv] = "ENV_RUNNABLE" /\ n # 0 /\ curenv = s[1]
         /\ Queued(env_sched_list', n, Insert(n - 1, Delete(n, s, 1), curenv), env_status)
         /\ curenv' = env_sched_list'.tqh_first /\ halted' = "no"
      \/ /\ curenv = NULL \/ env_status[curenv] # "ENV_RUNNABLE"
         /\ env_sched_list' = env_sched_list /\ n # 0
         /\ curenv' = s[1] /\ halted' = "no"
      \/ /\ curenv = NULL \/ env_status[curenv] # "ENV_RUNNABLE"
         /\ env_sched_list' = env_sched_list /\ n = 0
         /\ curenv' = curenv /\ halted' = "no runnable envs" /\ count' = count
  BY <1>0, <1>1, ScheduleQueue
<1>5. CASE /\ curenv # NULL /\ count > 0
           /\ env_sched_list' = env_sched_list /\ curenv' = curenv /\ halted' = "no"
           /\ count' = count - 1
  <2>1. Spelled'
    BY <1>1, <1>5 DEF Spelled
  <2>2. HeadRuns' /\ BootFirst' /\ IdlePanic'
    BY <1>0, <1>5 DEF HeadRuns, BootFirst, IdlePanic
  <2>3. Line!Tick
    BY <1>5 DEF Line!Tick
  <2> QED BY <2>1, <2>2, <2>3 DEF LineStep, Line!RRNext
<1>6. CASE /\ curenv # NULL /\ n # 0 /\ curenv = s[1]
           /\ Queued(env_sched_list', n, Insert(n - 1, Delete(n, s, 1), curenv), env_status)
           /\ curenv' = env_sched_list'.tqh_first /\ halted' = "no"
  <2>0. PICK t : t = Insert(n - 1, Delete(n, s, 1), curenv)
    OBVIOUS
  <2>1. Spells(env_sched_list', n, t) /\ Queued(env_sched_list', n, t, env_status')
    BY <1>6, <2>0 DEF Queued
  <2>2. Spelled'
    BY <2>1 DEF Spelled
  <2>3. HeadRuns' /\ BootFirst' /\ IdlePanic'
    BY <1>6 DEF HeadRuns, BootFirst, IdlePanic
  <2>4. env_sched_list'.tqh_first = t[1] /\ t[1] \in Env
    BY <1>6, <2>1, FirstFacts
  <2>5. AsSequence(env_sched_list') = t /\ (t = <<>> <=> n = 0) /\ (n # 0 => Head(t) = t[1])
    BY <2>1, LineFacts
  <2>6. t = Append(Tail(s), Head(s))
    BY <1>3, <1>6, <2>0
  <2>7. t # <<>> /\ curenv' = Head(t)
    BY <1>6, <2>4, <2>5
  <2>8. Line!Rotate
    BY <1>3, <1>6, <2>5, <2>6, <2>7 DEF Line!Rotate, Line!Dispatch
  <2> QED BY <2>2, <2>3, <2>8 DEF LineStep, Line!RRNext
<1>7. CASE /\ curenv = NULL /\ env_sched_list' = env_sched_list /\ n # 0
           /\ curenv' = s[1] /\ halted' = "no"
  <2>1. Spelled'
    BY <1>1, <1>7 DEF Spelled
  <2>2. HeadRuns' /\ BootFirst' /\ IdlePanic'
    BY <1>7, <1>f DEF HeadRuns, BootFirst, IdlePanic
  <2>3. Line!Start
    BY <1>3, <1>7 DEF Line!Start, Line!Dispatch
  <2> QED BY <2>1, <2>2, <2>3 DEF LineStep, Line!RRNext
<1>8. CASE /\ curenv = NULL /\ env_sched_list' = env_sched_list /\ n = 0
           /\ curenv' = curenv /\ halted' = "no runnable envs" /\ count' = count
  <2>1. Spelled'
    BY <1>1, <1>8 DEF Spelled
  <2>2. HeadRuns' /\ BootFirst' /\ IdlePanic'
    BY <1>8, <1>f DEF HeadRuns, BootFirst, IdlePanic
  <2>3. UNCHANGED Line!rrVars
    BY <1>8 DEF Line!rrVars
  <2> QED BY <2>1, <2>2, <2>3 DEF LineStep
<1> QED BY <1>0, <1>4, <1>5, <1>6, <1>7, <1>8

\* The running environment blocks or is destroyed.
LEMMA RetireStep ==
    ASSUME RunInv, irq_on = TRUE, halted = "no", curenv \in Env,
           NEW status \in [Env -> Statuses], status[curenv] # "ENV_RUNNABLE",
           \A x \in Env \ {curenv} : status[x] = env_status[x],
           env_status' = status, NEW e \in {curenv, NULL}, count' \in Nat,
           schedule(TRUE, status, TAILQ_REMOVE(env_sched_list, curenv), e),
           UNCHANGED irq_on
    PROVE  Spelled' /\ HeadRuns' /\ BootFirst' /\ IdlePanic' /\ LineStep
<1>0. /\ count \in Nat /\ curenv # NULL
      /\ env_status[curenv] = "ENV_RUNNABLE" /\ env_sched_list.tqh_first = curenv
  BY NullAssumption DEF RunInv, BlockingInv, StructInv, KernelTypeOK, CurenvRunnable, HeadRuns
<1>1. PICK n, s : Queued(env_sched_list, n, s, env_status)
  BY DEF RunInv, Spelled
<1>2. Spells(env_sched_list, n, s) /\ n \in Nat
  BY <1>1 DEF Queued, Spells
<1>f. n # 0 /\ curenv = s[1] /\ 1 \in 1..n
  BY <1>0, <1>2, FirstFacts
<1>3. AsSequence(env_sched_list) = s /\ Tail(s) = Delete(n, s, 1)
  BY <1>2, <1>f, LineFacts
<1>4. PICK q : q = TAILQ_REMOVE(env_sched_list, curenv)
  OBVIOUS
<1>5. PICK t : t = Delete(n, s, 1)
  OBVIOUS
<1>m. PICK m : m = n - 1
  OBVIOUS
<1>6. /\ Spells(q, m, t) /\ TAILQ_REMOVE(q, curenv) = q /\ ~RemoveFaults(q, curenv)
  BY <1>m, <1>2, <1>f, <1>4, <1>5, RemoveSpells
<1>7. Queued(q, m, t, status)
  <2>1. \A x : In(m, t, x) <=> In(n, s, x) /\ x # curenv
    BY <1>m, <1>2, <1>5, <1>f, MemberFacts
  <2> QED BY <1>1, <1>6, <2>1 DEF Queued
<1>8. \/ /\ env_sched_list' = q /\ m # 0
         /\ curenv' = t[1] /\ halted' = "no"
      \/ /\ env_sched_list' = q /\ m = 0
         /\ curenv' = e /\ halted' = "no runnable envs" /\ count' = count
  <2>1. schedule(TRUE, status, q, e)
    BY <1>4
  <2>2. /\ ~(e # NULL /\ status[e] = "ENV_RUNNABLE") /\ e \in Env \cup {NULL}
        /\ e # NULL => TAILQ_REMOVE(q, e) = q /\ ~RemoveFaults(q, e)
    BY <1>6
  <2>3. \/ /\ e # NULL /\ status[e] = "ENV_RUNNABLE" /\ count > 0 /\ ~TRUE
           /\ env_sched_list' = q /\ curenv' = e /\ halted' = "no" /\ count' = count - 1
        \/ /\ e # NULL /\ status[e] = "ENV_RUNNABLE" /\ m # 0 /\ e = t[1]
           /\ Queued(env_sched_list', m, Insert(m - 1, Delete(m, t, 1), e), status)
           /\ curenv' = env_sched_list'.tqh_first /\ halted' = "no"
        \/ /\ e = NULL \/ status[e] # "ENV_RUNNABLE"
           /\ env_sched_list' = q /\ m # 0
           /\ curenv' = t[1] /\ halted' = "no"
        \/ /\ e = NULL \/ status[e] # "ENV_RUNNABLE"
           /\ env_sched_list' = q /\ m = 0
           /\ curenv' = e /\ halted' = "no runnable envs" /\ count' = count
    BY <1>0, <1>7, <2>1, <2>2, ScheduleQueue
  <2> QED BY <2>2, <2>3
<1>g. /\ q.tqh_first = NULL <=> m = 0
      /\ m # 0 => q.tqh_first = t[1] /\ t[1] \in Env
  BY <1>6, FirstFacts
<1>9. /\ AsSequence(q) = t /\ (t = <<>> <=> m = 0)
      /\ m # 0 => Head(t) = t[1]
  BY <1>6, LineFacts
<1>10. Spelled'
  BY <1>7, <1>8 DEF Spelled
<1>11. HeadRuns' /\ BootFirst' /\ IdlePanic'
  BY <1>8, <1>g DEF HeadRuns, BootFirst, IdlePanic
<1>12. Line!Retire
  BY <1>0, <1>3, <1>5, <1>8, <1>9 DEF Line!Retire, Line!Dispatch
<1> QED BY <1>10, <1>11, <1>12 DEF LineStep, Line!RRNext

\* An environment becomes runnable, at the back of the queue.
LEMMA ArriveStep ==
    ASSUME RunInv, halted = "no", NEW e \in Env, env_status[e] # "ENV_RUNNABLE",
           env_status' = [env_status EXCEPT ![e] = "ENV_RUNNABLE"],
           env_sched_list' = TAILQ_INSERT_TAIL(env_sched_list, e), irq_on = TRUE,
           UNCHANGED <<curenv, count, halted, irq_on>>
    PROVE  Spelled' /\ HeadRuns' /\ BootFirst' /\ IdlePanic' /\ LineStep
<1>0. env_status \in [Env -> Statuses] /\ (curenv # NULL => env_sched_list.tqh_first = curenv)
  BY DEF RunInv, BlockingInv, StructInv, KernelTypeOK, HeadRuns
<1>1. PICK n, s : Queued(env_sched_list, n, s, env_status)
  BY DEF RunInv, Spelled
<1>2. Spells(env_sched_list, n, s) /\ n \in Nat /\ ~In(n, s, e)
  BY <1>1 DEF Queued, Spells
<1>3. Spells(env_sched_list', n + 1, Insert(n, s, e))
  BY <1>2, InsertTailSpells
<1>4. \A x : In(n + 1, Insert(n, s, e), x) <=> In(n, s, x) \/ x = e
  BY <1>2, MemberFacts
<1>5. \A x \in Env : env_status'[x] = "ENV_RUNNABLE" <=> env_status[x] = "ENV_RUNNABLE" \/ x = e
  BY <1>0
<1>6. Queued(env_sched_list', n + 1, Insert(n, s, e), env_status')
  BY <1>1, <1>3, <1>4, <1>5 DEF Queued
<1>7. Spelled'
  BY <1>6 DEF Spelled
<1>8. HeadRuns'
  <2>1. ASSUME curenv # NULL PROVE env_sched_list'.tqh_first = curenv
    <3>1. n # 0 /\ curenv = s[1] /\ 1 \in 1..n
      BY <1>0, <1>2, <2>1, FirstFacts
    <3>2. Insert(n, s, e)[1] = s[1] /\ n + 1 # 0
      BY <1>2, <3>1 DEF Insert
    <3>3. n + 1 # 0 => env_sched_list'.tqh_first = Insert(n, s, e)[1]
      BY <1>3, FirstFacts
    <3> QED BY <3>1, <3>2, <3>3
  <2> QED BY <2>1 DEF HeadRuns
<1>9. BootFirst' /\ IdlePanic'
  BY DEF BootFirst, IdlePanic
<1>10. Line!Arrive(e)
  <2>1. /\ AsSequence(env_sched_list) = s /\ Append(s, e) = Insert(n, s, e)
        /\ {s[i] : i \in 1..Len(s)} = {x \in Env : In(n, s, x)}
    BY <1>2, LineFacts
  <2>2. AsSequence(env_sched_list') = Insert(n, s, e)
    BY <1>3, LineFacts
  <2>3. e \notin Line!Members
    BY <1>2, <2>1 DEF Line!Members
  <2> QED BY <2>1, <2>2, <2>3 DEF Line!Arrive
<1> QED BY <1>7, <1>8, <1>9, <1>10 DEF LineStep, Line!RRNext

\* An environment that is not running leaves the queue.
LEMMA LeaveStep ==
    ASSUME RunInv, halted = "no", NEW e \in Env, env_status[e] = "ENV_RUNNABLE", e # curenv,
           NEW status \in Statuses \ {"ENV_RUNNABLE"},
           env_status' = [env_status EXCEPT ![e] = status],
           env_sched_list' = TAILQ_REMOVE(env_sched_list, e), irq_on = TRUE,
           UNCHANGED <<curenv, count, halted, irq_on>>
    PROVE  Spelled' /\ HeadRuns' /\ BootFirst' /\ IdlePanic' /\ LineStep
<1>0. env_status \in [Env -> Statuses] /\ (curenv # NULL => env_sched_list.tqh_first = curenv)
  BY DEF RunInv, BlockingInv, StructInv, KernelTypeOK, HeadRuns
<1>1. PICK n, s : Queued(env_sched_list, n, s, env_status)
  BY DEF RunInv, Spelled
<1>2. Spells(env_sched_list, n, s) /\ n \in Nat /\ In(n, s, e)
  BY <1>1 DEF Queued, Spells
<1>i. PICK i \in 1..n : e = s[i]
  BY <1>2 DEF In
<1>3. Spells(env_sched_list', n - 1, Delete(n, s, i))
  BY <1>2, <1>i, RemoveSpells
<1>4. \A x : In(n - 1, Delete(n, s, i), x) <=> In(n, s, x) /\ x # e
  BY <1>2, <1>i, MemberFacts
<1>5. \A x \in Env : env_status'[x] = "ENV_RUNNABLE" <=> env_status[x] = "ENV_RUNNABLE" /\ x # e
  BY <1>0
<1>6. Queued(env_sched_list', n - 1, Delete(n, s, i), env_status')
  BY <1>1, <1>3, <1>4, <1>5 DEF Queued
<1>7. Spelled'
  BY <1>6 DEF Spelled
<1>8. HeadRuns'
  <2>1. ASSUME curenv # NULL PROVE env_sched_list'.tqh_first = curenv
    <3>1. n # 0 /\ curenv = s[1] /\ 1 \in 1..n
      BY <1>0, <1>2, <2>1, FirstFacts
    <3>2. i # 1 /\ i \in Nat
      BY <1>i, <1>2, <3>1
    <3>3. n - 1 # 0 /\ Delete(n, s, i)[1] = s[1]
      BY <1>2, <3>1, <3>2 DEF Delete
    <3>4. n - 1 # 0 => env_sched_list'.tqh_first = Delete(n, s, i)[1]
      BY <1>3, FirstFacts
    <3> QED BY <3>1, <3>3, <3>4
  <2> QED BY <2>1 DEF HeadRuns
<1>9. BootFirst' /\ IdlePanic'
  BY DEF BootFirst, IdlePanic
<1>10. Line!Leave(e)
  <2>1. AsSequence(env_sched_list) = s /\ Len(s) = n
    BY <1>2, LineFacts
  <2>2. AsSequence(env_sched_list') = Delete(n, s, i)
    BY <1>3, LineFacts
  <2>3. Line!Without(i) = Delete(n, s, i)
    BY <2>1 DEF Line!Without, Delete
  <2> QED BY <1>i, <2>1, <2>2, <2>3 DEF Line!Leave
<1> QED BY <1>7, <1>8, <1>9, <1>10 DEF LineStep, Line!RRNext

LEMMA CreateStep ==
    ASSUME RunInv, NEW priority \in Priorities, env_create(priority)
    PROVE  Spelled' /\ HeadRuns' /\ BootFirst' /\ IdlePanic' /\ LineStep
<1>0. PICK e \in Env : /\ env_alloc(e, Zero)
                       /\ env_status' = [env_status EXCEPT ![e] = "ENV_RUNNABLE"]
                       /\ env_sched_list' = TAILQ_INSERT_HEAD(env_sched_list, e)
  BY DEF env_create
<1>1. /\ env_status \in [Env -> Statuses] /\ env_status[e] = "ENV_FREE"
      /\ halted = "no" /\ curenv = NULL /\ UNCHANGED <<curenv, count, halted, irq_on>>
  <2>1. env_free_list # <<>> /\ e = Head(env_free_list)
    BY <1>0 DEF env_alloc
  <2>2. e = env_free_list[1] /\ Len(env_free_list) \in Nat \ {0}
    BY <2>1, PopFacts DEF RunInv, BlockingInv, StructInv, KernelTypeOK
  <2>3. env_status[e] = "ENV_FREE"
    BY <2>2 DEF RunInv, BlockingInv, StructInv, FreeListExact
  <2> QED BY <2>3 DEF RunInv, BlockingInv, StructInv, KernelTypeOK, BootFirst, env_create
<1>2. PICK n, s : Queued(env_sched_list, n, s, env_status)
  BY DEF RunInv, Spelled
<1>3. Spells(env_sched_list, n, s) /\ ~In(n, s, e)
  BY <1>1, <1>2 DEF Queued
<1>4. Spells(env_sched_list', n + 1, Push(n, s, e))
  BY <1>0, <1>3, InsertHeadSpells
<1>5. \A x : In(n + 1, Push(n, s, e), x) <=> In(n, s, x) \/ x = e
  BY <1>3, MemberFacts
<1>6. \A x \in Env : env_status'[x] = "ENV_RUNNABLE" <=> env_status[x] = "ENV_RUNNABLE" \/ x = e
  BY <1>0, <1>1
<1>7. Spelled'
  <2>1. Queued(env_sched_list', n + 1, Push(n, s, e), env_status')
    BY <1>2, <1>4, <1>5, <1>6 DEF Queued
  <2> QED BY <2>1 DEF Spelled
<1>8. HeadRuns' /\ BootFirst' /\ IdlePanic'
  BY <1>1 DEF HeadRuns, BootFirst, IdlePanic
<1>9. Line!Create(e)
  <2>1. /\ AsSequence(env_sched_list) = s /\ <<e>> \o s = Push(n, s, e)
        /\ {s[i] : i \in 1..Len(s)} = {x \in Env : In(n, s, x)}
    BY <1>3, LineFacts
  <2>2. AsSequence(env_sched_list') = Push(n, s, e)
    BY <1>4, LineFacts
  <2>3. e \notin Line!Members
    BY <1>3, <2>1 DEF Line!Members
  <2> QED BY <1>1, <2>1, <2>2, <2>3 DEF Line!Create
<1> QED BY <1>7, <1>8, <1>9 DEF LineStep, Line!RRNext

LEMMA ForkStep ==
    ASSUME RunInv, sys_exofork \/ sys_exofork_no_asid
    PROVE  Spelled' /\ HeadRuns' /\ BootFirst' /\ IdlePanic' /\ LineStep
<1>0. env_status \in [Env -> Statuses]
  BY DEF RunInv, BlockingInv, StructInv, KernelTypeOK
<1>1. UNCHANGED <<env_sched_list, curenv, count, halted, irq_on>>
  BY DEF sys_exofork, sys_exofork_no_asid, runState
<1>2. \A x \in Env : env_status'[x] = "ENV_RUNNABLE" <=> env_status[x] = "ENV_RUNNABLE"
  <2>1. CASE sys_exofork_no_asid
    BY <2>1 DEF sys_exofork_no_asid
  <2>2. CASE sys_exofork
    <3>1. PICK e \in Env : /\ env_alloc(e, env_id[curenv])
                           /\ env_status' = [env_status EXCEPT ![e] = "ENV_NOT_RUNNABLE"]
      BY <2>2 DEF sys_exofork
    <3>2. env_free_list # <<>> /\ e = Head(env_free_list)
      BY <3>1 DEF env_alloc
    <3>3. e = env_free_list[1] /\ Len(env_free_list) \in Nat \ {0}
      BY <3>2, PopFacts DEF RunInv, BlockingInv, StructInv, KernelTypeOK
    <3>4. env_status[e] = "ENV_FREE"
      BY <3>3 DEF RunInv, BlockingInv, StructInv, FreeListExact
    <3> QED BY <1>0, <3>1, <3>4
  <2> QED BY <2>1, <2>2
<1> QED BY <1>1, <1>2, IdleStep

LEMMA SetStatusStep ==
    ASSUME Discipline = AllRules, RunInv, NEW envid \in EnvIds,
           NEW status \in Statuses \ {"ENV_FREE"}, sys_set_env_status(envid, status)
    PROVE  Spelled' /\ HeadRuns' /\ BootFirst' /\ IdlePanic' /\ LineStep
<1>0. PICK e : e = envid2env(envid, TRUE)
  OBVIOUS
<1>1. /\ e \in Env /\ env_status \in [Env -> Statuses] /\ halted = "no" /\ irq_on = TRUE
      /\ env_status' = [env_status EXCEPT ![e] = status]
      /\ UNCHANGED <<curenv, count, halted, irq_on>>
      /\ status # "ENV_RUNNABLE" => e # curenv
      /\ env_sched_list' =
            IF status = "ENV_RUNNABLE" /\ env_status[e] # "ENV_RUNNABLE"
              THEN TAILQ_INSERT_TAIL(env_sched_list, e)
            ELSE IF status # "ENV_RUNNABLE" /\ env_status[e] = "ENV_RUNNABLE"
              THEN TAILQ_REMOVE(env_sched_list, e)
            ELSE env_sched_list
  <2>1. e \in Env
    BY <1>0, LookupLive DEF sys_set_env_status, RunInv, BlockingInv
  <2> QED BY <1>0, <2>1
          DEF RunInv, BlockingInv, StructInv, KernelTypeOK, sys_set_env_status, Running,
              Permits, AllRules
<1>2. CASE status = "ENV_RUNNABLE" /\ env_status[e] # "ENV_RUNNABLE"
  BY <1>1, <1>2, ArriveStep
<1>3. CASE status # "ENV_RUNNABLE" /\ env_status[e] = "ENV_RUNNABLE"
  BY <1>1, <1>3, LeaveStep
<1>4. CASE status = "ENV_RUNNABLE" <=> env_status[e] = "ENV_RUNNABLE"
  <2>1. \A x \in Env : env_status'[x] = "ENV_RUNNABLE" <=> env_status[x] = "ENV_RUNNABLE"
    BY <1>1, <1>4
  <2>2. UNCHANGED <<env_sched_list, curenv, count, halted, irq_on>>
    BY <1>1, <1>4
  <2> QED BY <2>1, <2>2, IdleStep
<1> QED BY <1>2, <1>3, <1>4

LEMMA DestroyStep ==
    ASSUME Discipline = AllRules, RunInv, NEW envid \in EnvIds, sys_env_destroy(envid),
           count' \in Nat
    PROVE  Spelled' /\ HeadRuns' /\ BootFirst' /\ IdlePanic' /\ LineStep
<1>0. PICK e : e = envid2env(envid, TRUE)
  OBVIOUS
<1>1. /\ e \in Env /\ env_status \in [Env -> Statuses] /\ halted = "no" /\ irq_on = TRUE
      /\ env_status' = [env_status EXCEPT ![e] = "ENV_FREE"] /\ irq_on' = irq_on
      /\ env_status[e] = "ENV_RUNNABLE" /\ curenv # NULL /\ curenv \in Env
  <2>1. e \in Env
    BY <1>0, LookupLive DEF sys_env_destroy, RunInv, BlockingInv
  <2> QED BY <1>0, <2>1
          DEF RunInv, BlockingInv, StructInv, KernelTypeOK, sys_env_destroy, Running,
              Permits, AllRules
<1>2. ~RemoveFaults(env_sched_list, e)
  <2>1. PICK n, s : Queued(env_sched_list, n, s, env_status)
    BY DEF RunInv, Spelled
  <2>2. Spells(env_sched_list, n, s)
    BY <2>1 DEF Queued
  <2>3. PICK i \in 1..n : e = s[i]
    BY <1>1, <2>1 DEF Queued, In
  <2> QED BY <2>2, <2>3, RemoveSpells
<1>3. \/ e = curenv /\ schedule(TRUE, env_status', TAILQ_REMOVE(env_sched_list, e), NULL)
      \/ /\ e # curenv /\ env_sched_list' = TAILQ_REMOVE(env_sched_list, e)
         /\ UNCHANGED <<curenv, count, halted>>
  BY <1>0, <1>2 DEF sys_env_destroy
<1>4. PICK status \in [Env -> Statuses] : status = env_status'
  BY <1>1 DEF Statuses
<1>5. CASE e = curenv /\ schedule(TRUE, env_status', TAILQ_REMOVE(env_sched_list, e), NULL)
  <2>1. schedule(TRUE, status, TAILQ_REMOVE(env_sched_list, curenv), NULL)
    BY <1>4, <1>5, Zenon
  <2>2. status[curenv] # "ENV_RUNNABLE" /\ \A x \in Env \ {curenv} : status[x] = env_status[x]
    BY <1>1, <1>4, <1>5
  <2> QED BY <1>1, <1>4, <2>1, <2>2, RetireStep
<1>6. CASE /\ e # curenv /\ env_sched_list' = TAILQ_REMOVE(env_sched_list, e)
           /\ UNCHANGED <<curenv, count, halted>>
  <2>1. "ENV_FREE" \in Statuses \ {"ENV_RUNNABLE"}
    BY DEF Statuses
  <2> QED BY <1>1, <1>6, <2>1, LeaveStep
<1> QED BY <1>3, <1>5, <1>6

LEMMA NextRun ==
    ASSUME Discipline = AllRules, RunInv, [Handlers]_kernelVars
    PROVE  RunInv' /\ LineStep
<1>0. BlockingInv' /\ count' \in Nat
  <2>1. BlockingInv'
    BY NextBlocking DEF RunInv
  <2> QED BY <2>1 DEF BlockingInv, StructInv, KernelTypeOK
<1> SUFFICES Spelled' /\ HeadRuns' /\ BootFirst' /\ IdlePanic' /\ LineStep
  BY <1>0 DEF RunInv
<1>1. CASE \E priority \in Priorities : env_create(priority)
  BY <1>1, CreateStep
<1>2. CASE enable_irq
  <2>1. /\ UNCHANGED <<env_sched_list, curenv, count, halted, env_status>>
        /\ irq_on' = TRUE
    BY <1>2 DEF enable_irq, envFields, runState
  <2>2. BootFirst'
    BY <2>1 DEF BootFirst
  <2>3. Spelled' /\ HeadRuns' /\ (irq_on' = irq_on => BootFirst') /\ IdlePanic' /\ LineStep
    BY <2>1, IdleStep
  <2> QED BY <2>2, <2>3
<1>3. CASE timer_irq
  <2>1. /\ irq_on = TRUE /\ halted = "no" /\ UNCHANGED <<env_status, irq_on>>
        /\ schedule(FALSE, env_status, env_sched_list, curenv)
    BY <1>3 DEF timer_irq, envFields, RunInv, BlockingInv, StructInv, KernelTypeOK
  <2> QED BY <1>0, <2>1, TurnStep
<1>4. CASE sys_yield
  <2>1. /\ irq_on = TRUE /\ halted = "no" /\ UNCHANGED <<env_status, irq_on>>
        /\ schedule(TRUE, env_status, env_sched_list, curenv)
    BY <1>4 DEF sys_yield, Running, envFields, RunInv, BlockingInv, StructInv, KernelTypeOK
  <2> QED BY <1>0, <2>1, TurnStep
<1>5. CASE sys_exofork \/ sys_exofork_no_asid
  BY <1>5, ForkStep
<1>6. CASE \E envid \in EnvIds, status \in Statuses \ {"ENV_FREE"} :
             sys_set_env_status(envid, status)
  BY <1>6, SetStatusStep
<1>7. CASE sys_ipc_recv
  <2>1. /\ irq_on = TRUE /\ halted = "no" /\ curenv # NULL /\ curenv \in Env
        /\ env_status \in [Env -> Statuses] /\ UNCHANGED irq_on
        /\ env_status' = [env_status EXCEPT ![curenv] = "ENV_NOT_RUNNABLE"]
    BY <1>7 DEF sys_ipc_recv, Running, RunInv, BlockingInv, StructInv, KernelTypeOK
  <2>2. PICK status \in [Env -> Statuses] : status = env_status'
    BY <2>1 DEF Statuses
  <2>3. schedule(TRUE, status, TAILQ_REMOVE(env_sched_list, curenv), curenv)
    BY <1>7, <2>2, Zenon DEF sys_ipc_recv
  <2>4. status[curenv] # "ENV_RUNNABLE" /\ \A x \in Env \ {curenv} : status[x] = env_status[x]
    BY <2>1, <2>2
  <2> QED BY <1>0, <2>1, <2>2, <2>3, <2>4, RetireStep
<1>8. ASSUME NEW envid \in EnvIds, sys_ipc_try_send(envid)
      PROVE  Spelled' /\ HeadRuns' /\ BootFirst' /\ IdlePanic' /\ LineStep
  <2>0. PICK e : e = envid2env(envid, FALSE)
    OBVIOUS
  <2>1. e \in Env
    BY <1>8, <2>0, LookupLive DEF sys_ipc_try_send, RunInv, BlockingInv
  <2>2. /\ halted = "no" /\ irq_on = TRUE /\ env_ipc_recving[e]
        /\ env_status' = [env_status EXCEPT ![e] = "ENV_RUNNABLE"]
        /\ env_sched_list' = TAILQ_INSERT_TAIL(env_sched_list, e)
        /\ UNCHANGED <<curenv, count, halted, irq_on>>
    BY <1>8, <2>0 DEF sys_ipc_try_send, Running, RunInv, BlockingInv, StructInv, KernelTypeOK
  <2>3. env_status[e] # "ENV_RUNNABLE"
    BY <2>1, <2>2 DEF RunInv, BlockingInv, BlockedWhileReceiving
  <2> QED BY <2>1, <2>2, <2>3, ArriveStep
<1>9. CASE \E envid \in EnvIds : sys_env_destroy(envid)
  BY <1>0, <1>9, DestroyStep
<1>10. CASE UNCHANGED kernelVars
  <2>1. UNCHANGED <<env_sched_list, curenv, count, halted, irq_on, env_status>>
    BY <1>10 DEF kernelVars
  <2> QED BY <2>1, IdleStep
<1> QED BY <1>1, <1>2, <1>3, <1>4, <1>5, <1>6, <1>7, <1>8, <1>9, <1>10 DEF Handlers

LEMMA InitRun == Init => RunInv /\ Line!RRInit
<1> SUFFICES ASSUME Init PROVE RunInv /\ Line!RRInit
  OBVIOUS
<1>1. PICK s : s = [k \in 1..0 |-> 0]
  OBVIOUS
<1>2. Spells(env_sched_list, 0, s)
  BY <1>1 DEF Init, Spells, TAILQ_INIT, TailqType
<1>3. Queued(env_sched_list, 0, s, env_status)
  BY <1>2 DEF Init, Queued, In
<1>4. Spelled
  BY <1>3 DEF Spelled
<1>5. HeadRuns /\ BootFirst /\ IdlePanic
  BY DEF Init, HeadRuns, BootFirst, IdlePanic
<1>6. AsSequence(env_sched_list) = <<>>
  BY <1>2, LineFacts
<1> QED BY <1>4, <1>5, <1>6, InitBlocking DEF RunInv, Init, Line!RRInit

-----------------------------------------------------------------------------
\* Under the three rules an environment is on env_sched_list exactly while it is
\* ENV_RUNNABLE (env.c:18, sched.c:14), for every number of slots and every mix of
\* calls and ticks, also through the double TAILQ_REMOVE of sys_ipc_recv and schedule.
THEOREM QueueHoldsRunnable ==
    ASSUME Discipline = AllRules
    PROVE  Spec => []SchedListInv
<1>1. RunInv => SchedListInv
  <2> SUFFICES ASSUME RunInv, NEW e \in Env
               PROVE  e \in Linked(env_sched_list) <=> env_status[e] = "ENV_RUNNABLE"
    BY DEF SchedListInv
  <2>1. PICK n, s : Queued(env_sched_list, n, s, env_status)
    BY DEF RunInv, Spelled
  <2>2. e \in Linked(env_sched_list) <=> In(n, s, e)
    BY <2>1, SpellsSeen DEF Queued
  <2> QED BY <2>1, <2>2 DEF Queued
<1>2. RunInv /\ [Handlers]_kernelVars => RunInv'
  BY NextRun
<1> QED BY <1>1, <1>2, InitRun, StepHandles, PTL DEF Spec

\* Under the three rules no link of the run queue is ever stale, and the kernel
\* panics only when nobody is runnable: neither the assertion of env_run nor the
\* store of a TAILQ_REMOVE through a null link stops it (sched.c:32-50, env.c:487).
THEOREM QueueIsUsable ==
    ASSUME Discipline = AllRules
    PROVE  Spec => []QueueUsable
<1>1. RunInv /\ reading \in BOOLEAN => QueueUsable
  <2> SUFFICES ASSUME RunInv, reading \in BOOLEAN PROVE QueueUsable
    OBVIOUS
  <2>1. PICK n, s : Queued(env_sched_list, n, s, env_status)
    BY DEF RunInv, Spelled
  <2>2. Spells(env_sched_list, n, s)
    BY <2>1 DEF Queued
  <2>3. QueueWellLinked
    BY <2>2, SpellsSeen DEF QueueWellLinked
  <2>4. halted # "no" => \A x \in Env : env_status[x] # "ENV_RUNNABLE"
    <3>1. (env_sched_list.tqh_first = NULL <=> n = 0) /\ (n = 0 => \A x : ~In(n, s, x))
      BY <2>2, FirstFacts
    <3>2. halted # "no" => \A x : ~In(n, s, x)
      BY <3>1 DEF RunInv, IdlePanic
    <3> QED BY <2>1, <3>2 DEF Queued
  <2>5. halted \in {"no", "no runnable envs"}
    BY DEF RunInv, IdlePanic
  <2>6. TypeOK
    BY DEF RunInv, BlockingInv, StructInv, TypeOK
  <2> QED BY <2>3, <2>4, <2>5, <2>6 DEF QueueUsable, PanicOnlyWhenIdle
<1>2. RunInv /\ [Handlers]_kernelVars => RunInv'
  BY NextRun
<1>3. Init => reading \in BOOLEAN
  BY DEF Init
<1> QED BY <1>1, <1>2, <1>3, InitRun, StepHandles, ReadingTyped, PTL DEF Spec

\* Under the three rules the scheduler with its links implements the round-robin line
\* of RoundRobin: the first in line runs, newcomers go to the back, and nobody changes
\* place otherwise (sched.c, "Implement a round-robin scheduling").
THEOREM SchedulerIsRoundRobin ==
    ASSUME Discipline = AllRules
    PROVE  Spec => ImplementsRoundRobin
<1>1. Init => RunInv /\ Line!RRInit
  BY InitRun
<1>2. RunInv /\ [Handlers]_kernelVars => RunInv'
  BY NextRun
<1>3. RunInv /\ [Handlers]_kernelVars => [Line!RRNext]_(Line!rrVars)
  BY NextRun DEF LineStep
<1> QED BY <1>1, <1>2, <1>3, StepHandles, PTL DEF Spec, ImplementsRoundRobin, Line!RRSpec

=============================================================================
