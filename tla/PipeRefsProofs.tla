--------------------------- MODULE PipeRefsProofs ----------------------------
(***************************************************************************)
(* Theorems about PipeRefs, for any finite set of environments and any      *)
(* number of descriptors.                                                   *)
(***************************************************************************)
EXTENDS PipeRefs, FiniteSetTheorems, TLAPS

\* Only live environments run and are inside the library.
OnlyLiveAct == /\ \A e \in Env : status[e] # "alive" => pc[e] = "user" /\ loc[e] = NoLocals
               /\ curenv \in Env => status[curenv] = "alive"
FreeHasNothing == \A e \in Env : status[e] = "free" =>
    \A f \in Fd : fdpage[e][f] = NONE /\ buffer[e][f] = FALSE

\* A child under construction has one parent and what fork has copied so far.
ChildOf(p, c) == pc[p] = "fork" /\ loc[p].child = c
ParentKnown ==
    /\ \A p \in Env : pc[p] = "fork" => loc[p].child \in Env
    /\ \A p, c \in Env : ChildOf(p, c) => status[c] = "building"
    /\ \A c \in Env : status[c] = "building" => \E p \in Env : ChildOf(p, c)
    /\ \A p, q, c \in Env : ChildOf(p, c) /\ ChildOf(q, c) => p = q
ChildHas ==
    \A p, c \in Env : ChildOf(p, c) => \A f \in Fd :
        /\ f < loc[p].next => fdpage[c][f] = fdpage[p][f]
        /\ f >= loc[p].next => fdpage[c][f] = NONE
        /\ f + NFd < loc[p].next => buffer[c][f] = buffer[p][f]
        /\ f + NFd >= loc[p].next => buffer[c][f] = FALSE

\* A live environment's Fd page has its buffer beside it, and a buffer without Fd
\* page is one that a close or a dup in progress is about.
FdHasBuffer(e) == \A f \in Fd : fdpage[e][f] # NONE => buffer[e][f] = TRUE
Leftover(e) == \A f \in Fd : fdpage[e][f] = NONE /\ buffer[e][f] = TRUE =>
    \/ pc[e] = "close_data" /\ f = loc[e].fd
    \/ pc[e] \in {"dup_close_data", "dup_fd"} /\ f = loc[e].newfd

\* What the library call in progress relies on.
CallInv(e) ==
    /\ pc[e] = "user" => loc[e] = NoLocals
    /\ pc[e] = "close_data" => fdpage[e][loc[e].fd] = NONE
    /\ pc[e] \in {"dup_close_data", "dup_data", "dup_fd"} =>
         /\ loc[e].fd # loc[e].newfd
         /\ fdpage[e][loc[e].fd] # NONE /\ fdpage[e][loc[e].newfd] = NONE
    /\ pc[e] = "dup_fd" => buffer[e][loc[e].newfd] = TRUE
    /\ pc[e] \in {"runs", "fd_ref", "pipe_ref", "again"} => fdpage[e][loc[e].fd] # NONE

\* As long as the caller of _pipe_is_closed runs, what it has read is still so.
Snapshot(e) == curenv = e /\ ran[e] = FALSE =>
    /\ pc[e] \in {"pipe_ref", "again"} => loc[e].fd_ref = pageref_fd(fdpage[e][loc[e].fd])
    /\ pc[e] = "again" => loc[e].pipe_ref = pageref_pipe

LiveSound == \A e \in Env : status[e] = "alive" =>
    FdHasBuffer(e) /\ Leftover(e) /\ CallInv(e) /\ Snapshot(e)

\* While an environment forks, only its child may share an end with it.
OwnersApart == \A p, c, x \in Env : ChildOf(p, c) /\ x # p /\ x # c =>
    \A end \in Ends : ~(Holds(x, end) /\ Holds(p, end))

BaseInv == /\ TypeOK /\ OnlyLiveAct /\ FreeHasNothing /\ ParentKnown /\ ChildHas
           /\ LiveSound

-----------------------------------------------------------------------------
LEMMA FdFacts == /\ Fd \subseteq Nat /\ 0 \in Fd /\ 1 \in Fd /\ IsFiniteSet(Fd)
                 /\ \A f \in Fd : f < NFd
                 /\ \A n \in Nat : n < NFd => n \in Fd
                 /\ \A n \in Nat : NFd <= n /\ n < 2 * NFd => n - NFd \in Fd
<1>1. IsFiniteSet(Fd)
  BY FS_Interval, FdAssumption DEF Fd
<1> QED BY <1>1, FdAssumption DEF Fd

\* Reference counts are numbers.
LEMMA CountsAreNumbers ==
    /\ \A end : IsFiniteSet(FdSlots(end)) /\ pageref_fd(end) \in Nat
    /\ IsFiniteSet(BufferSlots) /\ pageref_pipe \in Nat
<1>1. IsFiniteSet(Slots)
  BY EnvAssumption, FdFacts, FS_Product DEF Slots
<1>2. ASSUME NEW S \in SUBSET Slots PROVE IsFiniteSet(S) /\ Cardinality(S) \in Nat
  BY <1>1, FS_Subset, FS_CardinalityType
<1>3. BufferSlots \in SUBSET Slots /\ \A end : FdSlots(end) \in SUBSET Slots
  BY DEF BufferSlots, FdSlots
<1> QED BY <1>2, <1>3 DEF pageref_fd, pageref_pipe

LEMMA NoLocalsType == NoLocals \in Locals
  BY FdFacts, FdAssumption DEF NoLocals, Locals

LEMMA InitBase == Init => BaseInv /\ OwnersApart
<1> SUFFICES ASSUME NEW creator \in Env,
        fdpage = [e \in Env |-> [f \in Fd |->
              IF e = creator /\ f = 0 THEN "reader"
              ELSE IF e = creator /\ f = 1 THEN "writer" ELSE NONE]],
        buffer = [e \in Env |-> [f \in Fd |-> e = creator /\ f \in {0, 1}]],
        status = [e \in Env |-> IF e = creator THEN "alive" ELSE "free"],
        pc = [e \in Env |-> "user"],
        loc = [e \in Env |-> NoLocals],
        ran = [e \in Env |-> TRUE],
        curenv = creator
    PROVE BaseInv /\ OwnersApart
  BY DEF Init
<1>1. TypeOK
  BY NoLocalsType DEF TypeOK, Ends, PCs
<1>2. OnlyLiveAct /\ ParentKnown /\ ChildHas /\ OwnersApart
  BY DEF OnlyLiveAct, ParentKnown, ChildHas, OwnersApart, ChildOf
<1>3. FreeHasNothing
  BY DEF FreeHasNothing
<1>4. LiveSound
  BY NoneAssumption DEF LiveSound, FdHasBuffer, Leftover, CallInv, Snapshot, Ends
<1> QED BY <1>1, <1>2, <1>3, <1>4 DEF BaseInv

-----------------------------------------------------------------------------
(* Steps of the library, by what they change.                              *)

\* A step of e, which is live and not forking, that changes only its own mappings
\* and locals: what concerns the others is kept.
LEMMA OwnStep ==
    ASSUME BaseInv, NEW e \in Env, curenv = e, pc[e] # "fork", NEW label \in PCs \ {"fork"},
           pc' = [pc EXCEPT ![e] = label], UNCHANGED <<status, curenv>>,
           fdpage' \in [Env -> [Fd -> Ends \cup {NONE}]], buffer' \in [Env -> [Fd -> BOOLEAN]],
           loc' \in [Env -> Locals], ran' \in [Env -> BOOLEAN],
           \A x \in Env \ {e} : /\ fdpage'[x] = fdpage[x] /\ buffer'[x] = buffer[x]
                                /\ loc'[x] = loc[x]
    PROVE  /\ FdHasBuffer(e)' /\ Leftover(e)' /\ CallInv(e)' /\ Snapshot(e)' => BaseInv'
           /\ OwnersApart /\ (\A end \in Ends : Holds(e, end)' => Holds(e, end)) => OwnersApart'
<1>0. /\ TypeOK /\ status[e] = "alive" /\ pc'[e] = label
      /\ \A x \in Env \ {e} : pc'[x] = pc[x]
  BY DEF BaseInv, TypeOK, OnlyLiveAct
<1>1. TypeOK'
  BY <1>0 DEF TypeOK
<1>2. OnlyLiveAct' /\ FreeHasNothing'
  <2>1. ASSUME NEW x \in Env, status'[x] # "alive"
        PROVE  /\ pc'[x] = pc[x] /\ loc'[x] = loc[x]
               /\ fdpage'[x] = fdpage[x] /\ buffer'[x] = buffer[x]
    BY <1>0, <2>1
  <2>2. OnlyLiveAct'
    BY <1>0, <2>1 DEF BaseInv, OnlyLiveAct
  <2>3. FreeHasNothing'
    BY <2>1 DEF BaseInv, FreeHasNothing
  <2> QED BY <2>2, <2>3
<1>3. \A p, c \in Env : ChildOf(p, c)' <=> ChildOf(p, c)
  BY <1>0 DEF ChildOf
<1>4. ParentKnown'
  <2>1. \A p \in Env : pc'[p] = "fork" => loc'[p].child \in Env
    BY <1>0 DEF BaseInv, ParentKnown
  <2>2. /\ \A p, c \in Env : ChildOf(p, c)' => status'[c] = "building"
        /\ \A c \in Env : status'[c] = "building" => \E p \in Env : ChildOf(p, c)'
        /\ \A p, q, c \in Env : ChildOf(p, c)' /\ ChildOf(q, c)' => p = q
    BY <1>3 DEF BaseInv, ParentKnown
  <2> QED BY <2>1, <2>2 DEF ParentKnown
<1>5. \A p, c \in Env : ChildOf(p, c) => p # e /\ c # e
  BY <1>0 DEF BaseInv, ParentKnown, ChildOf
<1>6. ChildHas'
  <2> SUFFICES ASSUME NEW p \in Env, NEW c \in Env, ChildOf(p, c)', NEW f \in Fd
               PROVE  /\ f < loc'[p].next => fdpage'[c][f] = fdpage'[p][f]
                      /\ f >= loc'[p].next => fdpage'[c][f] = NONE
                      /\ f + NFd < loc'[p].next => buffer'[c][f] = buffer'[p][f]
                      /\ f + NFd >= loc'[p].next => buffer'[c][f] = FALSE
    BY DEF ChildHas
  <2>1. ChildOf(p, c) /\ p # e /\ c # e
    BY <1>3, <1>5
  <2>2. loc'[p] = loc[p] /\ fdpage'[p] = fdpage[p] /\ buffer'[p] = buffer[p]
    BY <2>1
  <2>3. fdpage'[c] = fdpage[c] /\ buffer'[c] = buffer[c]
    BY <2>1
  <2> QED BY <2>1, <2>2, <2>3 DEF BaseInv, ChildHas
<1>7. FdHasBuffer(e)' /\ Leftover(e)' /\ CallInv(e)' /\ Snapshot(e)' => LiveSound'
  <2> SUFFICES ASSUME NEW x \in Env, status[x] = "alive", x # e
               PROVE  FdHasBuffer(x)' /\ Leftover(x)' /\ CallInv(x)' /\ Snapshot(x)'
    BY DEF LiveSound
  <2>1. FdHasBuffer(x) /\ Leftover(x) /\ CallInv(x)
    BY DEF BaseInv, LiveSound
  <2>2. /\ fdpage'[x] = fdpage[x] /\ buffer'[x] = buffer[x]
        /\ loc'[x] = loc[x] /\ pc'[x] = pc[x]
    BY <1>0
  <2>3. FdHasBuffer(x)' /\ Leftover(x)'
    BY <2>1, <2>2 DEF FdHasBuffer, Leftover
  <2>4. CallInv(x)'
    BY <2>1, <2>2 DEF CallInv
  <2>5. Snapshot(x)'
    BY DEF Snapshot
  <2> QED BY <2>3, <2>4, <2>5
<1>8. ASSUME OwnersApart, \A end \in Ends : Holds(e, end)' => Holds(e, end)
      PROVE  OwnersApart'
  <2>1. \A x \in Env, end \in Ends : Holds(x, end)' => Holds(x, end)
    BY <1>8 DEF Holds
  <2> QED BY <1>3, <1>8, <2>1 DEF OwnersApart
<1> QED BY <1>1, <1>2, <1>4, <1>6, <1>7, <1>8 DEF BaseInv

\* The same for a step that leaves the mappings alone.
LEMMA QuietStep ==
    ASSUME BaseInv, NEW e \in Env, curenv = e, pc[e] # "fork", NEW label \in PCs \ {"fork"},
           pc' = [pc EXCEPT ![e] = label], UNCHANGED <<fdpage, buffer, status, curenv>>,
           NEW l \in Locals, loc' = [loc EXCEPT ![e] = l], ran' \in [Env -> BOOLEAN],
           CallInv(e)', Snapshot(e)',
           pc[e] \notin {"close_data", "dup_close_data", "dup_fd"}
    PROVE  BaseInv' /\ (OwnersApart => OwnersApart')
<1>0. /\ TypeOK /\ status[e] = "alive"
      /\ FdHasBuffer(e) /\ Leftover(e)
  BY DEF BaseInv, LiveSound, OnlyLiveAct
<1>1. /\ fdpage' \in [Env -> [Fd -> Ends \cup {NONE}]] /\ buffer' \in [Env -> [Fd -> BOOLEAN]]
      /\ loc' \in [Env -> Locals]
      /\ \A x \in Env \ {e} : /\ fdpage'[x] = fdpage[x] /\ buffer'[x] = buffer[x]
                              /\ loc'[x] = loc[x]
  BY <1>0 DEF TypeOK
<1>2. /\ FdHasBuffer(e)' /\ Leftover(e)' /\ CallInv(e)' /\ Snapshot(e)' => BaseInv'
      /\ OwnersApart /\ (\A end \in Ends : Holds(e, end)' => Holds(e, end)) => OwnersApart'
  BY <1>1, OwnStep
<1>3. FdHasBuffer(e)' /\ Leftover(e)'
  BY <1>0 DEF FdHasBuffer, Leftover
<1>4. \A end \in Ends : Holds(e, end)' => Holds(e, end)
  BY DEF Holds
<1> QED BY <1>2, <1>3, <1>4

\* A record of locals, field by field.
LEMMA LocalFields ==
    ASSUME TypeOK, NEW e \in Env
    PROVE  /\ loc[e] \in Locals /\ loc[e].fd \in Fd /\ loc[e].newfd \in Fd
           /\ loc[e].child \in Env \cup {NONE} /\ loc[e].next \in 0..(2 * NFd)
           /\ loc[e].fd_ref \in Nat /\ loc[e].pipe_ref \in Nat
  BY DEF TypeOK, Locals

LEMMA AskStep ==
    ASSUME BaseInv, NEW e \in Env,
           \/ \E f \in Fd : pipe_is_closed(e, f)
           \/ read_runs(e) \/ read_fd_ref(e) \/ read_pipe_ref(e) \/ retry(e) \/ answer(e)
    PROVE  BaseInv' /\ (OwnersApart => OwnersApart')
<1>0. TypeOK /\ curenv = e /\ status[e] = "alive" /\ CallInv(e) /\ Snapshot(e)
  BY DEF BaseInv, LiveSound, OnlyLiveAct, pipe_is_closed, read_runs, read_fd_ref, read_pipe_ref,
         retry, answer, Answering, At
<1>l. /\ loc[e] \in Locals /\ loc[e].fd \in Fd /\ loc[e].newfd \in Fd
      /\ loc[e].child \in Env \cup {NONE} /\ loc[e].next \in 0..(2 * NFd)
      /\ loc[e].fd_ref \in Nat /\ loc[e].pipe_ref \in Nat
  BY <1>0, LocalFields
<1>1. ASSUME NEW f \in Fd, pipe_is_closed(e, f) PROVE BaseInv' /\ (OwnersApart => OwnersApart')
  <2> DEFINE l == [loc[e] EXCEPT !.fd = f]
  <2>1. l \in Locals /\ loc' = [loc EXCEPT ![e] = l] /\ loc'[e].fd = f
    BY <1>0, <1>1, <1>l DEF pipe_is_closed, Locals, TypeOK
  <2>2. /\ pc' = [pc EXCEPT ![e] = "runs"] /\ pc'[e] = "runs" /\ pc[e] = "user"
        /\ UNCHANGED <<fdpage, buffer, status, curenv>> /\ ran' \in [Env -> BOOLEAN]
        /\ fdpage'[e][f] # NONE
    BY <1>0, <1>1 DEF pipe_is_closed, Goto, At, TypeOK
  <2>3. CallInv(e)' /\ Snapshot(e)'
    BY <2>1, <2>2 DEF CallInv, Snapshot
  <2> HIDE DEF l
  <2> QED BY <1>0, <2>1, <2>2, <2>3, QuietStep DEF PCs
<1>2. ASSUME read_runs(e) PROVE BaseInv' /\ (OwnersApart => OwnersApart')
  <2>1. loc' = [loc EXCEPT ![e] = loc[e]] /\ loc' = loc
    BY <1>0, <1>2 DEF read_runs, TypeOK
  <2>2. /\ pc' = [pc EXCEPT ![e] = "fd_ref"] /\ pc'[e] = "fd_ref" /\ pc[e] = "runs"
        /\ UNCHANGED <<fdpage, buffer, status, curenv>> /\ ran' \in [Env -> BOOLEAN]
    BY <1>0, <1>2 DEF read_runs, Goto, At, TypeOK
  <2>3. CallInv(e)' /\ Snapshot(e)'
    BY <1>0, <2>1, <2>2 DEF CallInv, Snapshot
  <2> QED BY <1>0, <1>l, <2>1, <2>2, <2>3, QuietStep DEF PCs
<1>3. ASSUME read_fd_ref(e) PROVE BaseInv' /\ (OwnersApart => OwnersApart')
  <2> DEFINE l == [loc[e] EXCEPT !.fd_ref = pageref_fd(fdpage[e][loc[e].fd])]
  <2>1. /\ l \in Locals /\ loc' = [loc EXCEPT ![e] = l] /\ loc'[e].fd = loc[e].fd
        /\ loc'[e].fd_ref = pageref_fd(fdpage[e][loc[e].fd])
    BY <1>0, <1>3, <1>l, CountsAreNumbers DEF read_fd_ref, Locals, TypeOK
  <2>2. /\ pc' = [pc EXCEPT ![e] = "pipe_ref"] /\ pc'[e] = "pipe_ref" /\ pc[e] = "fd_ref"
        /\ UNCHANGED <<fdpage, buffer, status, curenv>> /\ ran' \in [Env -> BOOLEAN]
    BY <1>0, <1>3 DEF read_fd_ref, Goto, At, TypeOK
  <2>3. \A end : pageref_fd(end)' = pageref_fd(end)
    BY <2>2 DEF pageref_fd, FdSlots
  <2>4. CallInv(e)'
    BY <1>0, <2>1, <2>2 DEF CallInv
  <2>5. pageref_fd(fdpage[e][loc[e].fd])' = pageref_fd(fdpage[e][loc[e].fd])
    BY <2>1, <2>2 DEF pageref_fd, FdSlots
  <2>6. Snapshot(e)'
    BY <2>1, <2>2, <2>5 DEF Snapshot
  <2> HIDE DEF l
  <2> QED BY <1>0, <2>1, <2>2, <2>4, <2>6, QuietStep DEF PCs
<1>4. ASSUME read_pipe_ref(e) PROVE BaseInv' /\ (OwnersApart => OwnersApart')
  <2> DEFINE l == [loc[e] EXCEPT !.pipe_ref = pageref_pipe]
  <2>1. /\ l \in Locals /\ loc' = [loc EXCEPT ![e] = l] /\ loc'[e].fd = loc[e].fd
        /\ loc'[e].fd_ref = loc[e].fd_ref /\ loc'[e].pipe_ref = pageref_pipe
    BY <1>0, <1>4, <1>l, CountsAreNumbers DEF read_pipe_ref, Locals, TypeOK
  <2>2. /\ pc' = [pc EXCEPT ![e] = "again"] /\ pc'[e] = "again" /\ pc[e] = "pipe_ref"
        /\ UNCHANGED <<fdpage, buffer, status, curenv, ran>> /\ ran' \in [Env -> BOOLEAN]
    BY <1>0, <1>4 DEF read_pipe_ref, Goto, At, TypeOK
  <2>4. CallInv(e)'
    BY <1>0, <2>1, <2>2 DEF CallInv
  <2>5. /\ pageref_fd(fdpage[e][loc[e].fd])' = pageref_fd(fdpage[e][loc[e].fd])
        /\ pageref_pipe' = pageref_pipe
    BY <2>1, <2>2 DEF pageref_fd, FdSlots, pageref_pipe, BufferSlots
  <2>6. Snapshot(e)'
    BY <1>0, <2>1, <2>2, <2>5 DEF Snapshot
  <2> HIDE DEF l
  <2> QED BY <1>0, <2>1, <2>2, <2>4, <2>6, QuietStep DEF PCs
<1>5. ASSUME retry(e) PROVE BaseInv' /\ (OwnersApart => OwnersApart')
  <2> DEFINE l == [loc[e] EXCEPT !.fd_ref = 0, !.pipe_ref = 0]
  <2>1. l \in Locals /\ loc' = [loc EXCEPT ![e] = l] /\ loc'[e].fd = loc[e].fd
    BY <1>0, <1>5, <1>l DEF retry, Locals, TypeOK
  <2>2. /\ pc' = [pc EXCEPT ![e] = "runs"] /\ pc'[e] = "runs" /\ pc[e] = "again"
        /\ UNCHANGED <<fdpage, buffer, status, curenv>> /\ ran' \in [Env -> BOOLEAN]
    BY <1>0, <1>5 DEF retry, Goto, At, TypeOK
  <2>3. CallInv(e)' /\ Snapshot(e)'
    BY <1>0, <2>1, <2>2 DEF CallInv, Snapshot
  <2> HIDE DEF l
  <2> QED BY <1>0, <2>1, <2>2, <2>3, QuietStep DEF PCs
<1>6. ASSUME answer(e) PROVE BaseInv' /\ (OwnersApart => OwnersApart')
  <2>1. loc' = [loc EXCEPT ![e] = NoLocals] /\ loc'[e] = NoLocals
    BY <1>0, <1>6 DEF answer, Return, TypeOK
  <2>2. /\ pc' = [pc EXCEPT ![e] = "user"] /\ pc'[e] = "user" /\ pc[e] = "again"
        /\ UNCHANGED <<fdpage, buffer, status, curenv>> /\ ran' \in [Env -> BOOLEAN]
    BY <1>0, <1>6 DEF answer, Answering, Return, Goto, At, TypeOK
  <2>3. CallInv(e)' /\ Snapshot(e)'
    BY <2>1, <2>2 DEF CallInv, Snapshot
  <2> QED BY <1>0, <2>1, <2>2, <2>3, NoLocalsType, QuietStep DEF PCs
<1> QED BY <1>1, <1>2, <1>3, <1>4, <1>5, <1>6

LEMMA CloseStep ==
    ASSUME BaseInv, NEW e \in Env, (\E f \in Fd : close(e, f)) \/ close_data(e)
    PROVE  BaseInv' /\ (OwnersApart => OwnersApart')
<1>0. /\ TypeOK /\ curenv = e /\ status[e] = "alive"
      /\ CallInv(e) /\ FdHasBuffer(e) /\ Leftover(e)
  BY DEF BaseInv, LiveSound, OnlyLiveAct, close, close_data, At
<1>l. /\ loc[e] \in Locals /\ loc[e].fd \in Fd /\ loc[e].newfd \in Fd
      /\ loc[e].child \in Env \cup {NONE} /\ loc[e].next \in 0..(2 * NFd)
      /\ loc[e].fd_ref \in Nat /\ loc[e].pipe_ref \in Nat
  BY <1>0, LocalFields
<1>1. ASSUME NEW f \in Fd, close(e, f) PROVE BaseInv' /\ (OwnersApart => OwnersApart')
  <2>1. loc' \in [Env -> Locals] /\ loc'[e].fd = f /\ \A x \in Env \ {e} : loc'[x] = loc[x]
    BY <1>0, <1>1, <1>l DEF close, Locals, TypeOK
  <2>2. /\ fdpage' \in [Env -> [Fd -> Ends \cup {NONE}]] /\ buffer' \in [Env -> [Fd -> BOOLEAN]]
        /\ \A x \in Env \ {e} : fdpage'[x] = fdpage[x] /\ buffer'[x] = buffer[x]
        /\ fdpage'[e][f] = NONE /\ buffer' = buffer
        /\ \A g \in Fd \ {f} : fdpage'[e][g] = fdpage[e][g]
    BY <1>0, <1>1 DEF close, TypeOK
  <2>3. /\ pc' = [pc EXCEPT ![e] = "close_data"] /\ pc'[e] = "close_data" /\ pc[e] = "user"
        /\ UNCHANGED <<status, curenv>> /\ ran' \in [Env -> BOOLEAN]
    BY <1>0, <1>1 DEF close, Goto, At, TypeOK
  <2>4. /\ FdHasBuffer(e)' /\ Leftover(e)' /\ CallInv(e)' /\ Snapshot(e)' => BaseInv'
        /\ OwnersApart /\ (\A end \in Ends : Holds(e, end)' => Holds(e, end)) => OwnersApart'
    BY <1>0, <2>1, <2>2, <2>3, OwnStep DEF PCs
  <2>5. FdHasBuffer(e)' /\ Leftover(e)'
    BY <1>0, <2>1, <2>2, <2>3 DEF FdHasBuffer, Leftover
  <2>6. CallInv(e)' /\ Snapshot(e)'
    BY <2>1, <2>2, <2>3 DEF CallInv, Snapshot
  <2>7. \A end \in Ends : Holds(e, end)' => Holds(e, end)
    BY <2>2, NoneAssumption DEF Holds
  <2> QED BY <2>4, <2>5, <2>6, <2>7
<1>2. ASSUME close_data(e) PROVE BaseInv' /\ (OwnersApart => OwnersApart')
  <2>1. loc' \in [Env -> Locals] /\ loc'[e] = NoLocals /\ \A x \in Env \ {e} : loc'[x] = loc[x]
    BY <1>0, <1>2, NoLocalsType DEF close_data, Return, TypeOK
  <2>2. /\ fdpage' \in [Env -> [Fd -> Ends \cup {NONE}]] /\ buffer' \in [Env -> [Fd -> BOOLEAN]]
        /\ \A x \in Env \ {e} : fdpage'[x] = fdpage[x] /\ buffer'[x] = buffer[x]
        /\ fdpage' = fdpage /\ buffer'[e][loc[e].fd] = FALSE
        /\ \A g \in Fd \ {loc[e].fd} : buffer'[e][g] = buffer[e][g]
    BY <1>0, <1>l, <1>2 DEF close_data, TypeOK
  <2>3. /\ pc' = [pc EXCEPT ![e] = "user"] /\ pc'[e] = "user" /\ pc[e] = "close_data"
        /\ UNCHANGED <<status, curenv>> /\ ran' \in [Env -> BOOLEAN]
    BY <1>0, <1>2 DEF close_data, Return, Goto, At, TypeOK
  <2>4. /\ FdHasBuffer(e)' /\ Leftover(e)' /\ CallInv(e)' /\ Snapshot(e)' => BaseInv'
        /\ OwnersApart /\ (\A end \in Ends : Holds(e, end)' => Holds(e, end)) => OwnersApart'
    BY <1>0, <2>1, <2>2, <2>3, OwnStep DEF PCs
  <2>5. FdHasBuffer(e)'
    BY <1>0, <2>2, <2>3 DEF FdHasBuffer, CallInv
  <2>6. Leftover(e)'
    BY <1>0, <2>2, <2>3 DEF Leftover
  <2>7. CallInv(e)' /\ Snapshot(e)'
    BY <2>1, <2>2, <2>3 DEF CallInv, Snapshot
  <2>8. \A end \in Ends : Holds(e, end)' => Holds(e, end)
    BY <2>2 DEF Holds
  <2> QED BY <2>4, <2>5, <2>6, <2>7, <2>8
<1> QED BY <1>1, <1>2

LEMMA DupStep ==
    ASSUME BaseInv, NEW e \in Env,
           (\E f, g \in Fd : dup(e, f, g)) \/ dup_close_data(e) \/ dup_data(e) \/ dup_fd(e)
    PROVE  BaseInv' /\ (OwnersApart => OwnersApart')
<1>0. /\ TypeOK /\ curenv = e /\ status[e] = "alive"
      /\ CallInv(e) /\ FdHasBuffer(e) /\ Leftover(e)
  BY DEF BaseInv, LiveSound, OnlyLiveAct, dup, dup_close_data, dup_data, dup_fd, At
<1>l. /\ loc[e] \in Locals /\ loc[e].fd \in Fd /\ loc[e].newfd \in Fd
      /\ loc[e].child \in Env \cup {NONE} /\ loc[e].next \in 0..(2 * NFd)
      /\ loc[e].fd_ref \in Nat /\ loc[e].pipe_ref \in Nat
  BY <1>0, LocalFields
<1>1. ASSUME NEW f \in Fd, NEW g \in Fd, dup(e, f, g)
      PROVE  BaseInv' /\ (OwnersApart => OwnersApart')
  <2>0. PICK label \in {"dup_close_data", "dup_data"} :
          label = IF fdpage[e][g] # NONE THEN "dup_close_data" ELSE "dup_data"
    OBVIOUS
  <2>1. /\ loc' \in [Env -> Locals] /\ loc'[e].fd = f /\ loc'[e].newfd = g
        /\ \A x \in Env \ {e} : loc'[x] = loc[x]
    BY <1>0, <1>1, <1>l DEF dup, Locals, TypeOK
  <2>2. /\ fdpage' \in [Env -> [Fd -> Ends \cup {NONE}]] /\ buffer' \in [Env -> [Fd -> BOOLEAN]]
        /\ \A x \in Env \ {e} : fdpage'[x] = fdpage[x] /\ buffer'[x] = buffer[x]
        /\ fdpage'[e][g] = NONE /\ buffer' = buffer /\ f # g /\ fdpage[e][f] # NONE
        /\ \A h \in Fd \ {g} : fdpage'[e][h] = fdpage[e][h]
    BY <1>0, <1>1 DEF dup, TypeOK
  <2>3. /\ pc' = [pc EXCEPT ![e] = label] /\ pc'[e] = label /\ pc[e] = "user"
        /\ UNCHANGED <<status, curenv>> /\ ran' \in [Env -> BOOLEAN]
    BY <1>0, <1>1, <2>0 DEF dup, Goto, At, TypeOK
  <2>4. /\ FdHasBuffer(e)' /\ Leftover(e)' /\ CallInv(e)' /\ Snapshot(e)' => BaseInv'
        /\ OwnersApart /\ (\A end \in Ends : Holds(e, end)' => Holds(e, end)) => OwnersApart'
    <3>1. label \in PCs \ {"fork"}
      BY <2>0 DEF PCs
    <3> QED BY <1>0, <2>1, <2>2, <2>3, <3>1, OwnStep
  <2>5. FdHasBuffer(e)'
    BY <1>0, <2>2 DEF FdHasBuffer
  <2>6. Leftover(e)'
    <3> SUFFICES ASSUME NEW h \in Fd, fdpage'[e][h] = NONE, buffer'[e][h] = TRUE
                 PROVE  label = "dup_close_data" /\ h = g
      BY <2>1, <2>3 DEF Leftover
    <3>1. fdpage[e][h] # NONE
      BY <1>0, <2>2, <2>3 DEF Leftover
    <3> QED BY <3>1, <2>0, <2>2
  <2>7. CallInv(e)' /\ Snapshot(e)'
    BY <2>0, <2>1, <2>2, <2>3 DEF CallInv, Snapshot
  <2>8. \A end \in Ends : Holds(e, end)' => Holds(e, end)
    BY <2>2, NoneAssumption DEF Holds
  <2> QED BY <2>4, <2>5, <2>6, <2>7, <2>8
<1>2. ASSUME dup_close_data(e) PROVE BaseInv' /\ (OwnersApart => OwnersApart')
  <2>1. loc' \in [Env -> Locals] /\ loc' = loc /\ \A x \in Env \ {e} : loc'[x] = loc[x]
    BY <1>0, <1>2 DEF dup_close_data, TypeOK
  <2>2. /\ fdpage' \in [Env -> [Fd -> Ends \cup {NONE}]] /\ buffer' \in [Env -> [Fd -> BOOLEAN]]
        /\ \A x \in Env \ {e} : fdpage'[x] = fdpage[x] /\ buffer'[x] = buffer[x]
        /\ fdpage' = fdpage /\ buffer'[e][loc[e].newfd] = FALSE
        /\ \A g \in Fd \ {loc[e].newfd} : buffer'[e][g] = buffer[e][g]
    BY <1>0, <1>l, <1>2 DEF dup_close_data, TypeOK
  <2>3. /\ pc' = [pc EXCEPT ![e] = "dup_data"] /\ pc'[e] = "dup_data" /\ pc[e] = "dup_close_data"
        /\ UNCHANGED <<status, curenv>> /\ ran' \in [Env -> BOOLEAN]
    BY <1>0, <1>2 DEF dup_close_data, Goto, At, TypeOK
  <2>4. /\ FdHasBuffer(e)' /\ Leftover(e)' /\ CallInv(e)' /\ Snapshot(e)' => BaseInv'
        /\ OwnersApart /\ (\A end \in Ends : Holds(e, end)' => Holds(e, end)) => OwnersApart'
    BY <1>0, <2>1, <2>2, <2>3, OwnStep DEF PCs
  <2>5. FdHasBuffer(e)'
    BY <1>0, <2>2, <2>3 DEF FdHasBuffer, CallInv
  <2>6. Leftover(e)'
    BY <1>0, <2>2, <2>3 DEF Leftover
  <2>7. CallInv(e)' /\ Snapshot(e)'
    BY <1>0, <2>1, <2>2, <2>3 DEF CallInv, Snapshot
  <2>8. \A end \in Ends : Holds(e, end)' => Holds(e, end)
    BY <2>2 DEF Holds
  <2> QED BY <2>4, <2>5, <2>6, <2>7, <2>8
<1>3. ASSUME dup_data(e) PROVE BaseInv' /\ (OwnersApart => OwnersApart')
  <2>1. loc' \in [Env -> Locals] /\ loc' = loc /\ \A x \in Env \ {e} : loc'[x] = loc[x]
    BY <1>0, <1>3 DEF dup_data, TypeOK
  <2>2. /\ fdpage' \in [Env -> [Fd -> Ends \cup {NONE}]] /\ buffer' \in [Env -> [Fd -> BOOLEAN]]
        /\ \A x \in Env \ {e} : fdpage'[x] = fdpage[x] /\ buffer'[x] = buffer[x]
        /\ fdpage' = fdpage /\ buffer'[e][loc[e].newfd] = buffer[e][loc[e].fd]
        /\ \A g \in Fd \ {loc[e].newfd} : buffer'[e][g] = buffer[e][g]
    BY <1>0, <1>l, <1>3 DEF dup_data, TypeOK
  <2>3. /\ pc' = [pc EXCEPT ![e] = "dup_fd"] /\ pc'[e] = "dup_fd" /\ pc[e] = "dup_data"
        /\ UNCHANGED <<status, curenv>> /\ ran' \in [Env -> BOOLEAN]
    BY <1>0, <1>3 DEF dup_data, Goto, At, TypeOK
  <2>4. /\ FdHasBuffer(e)' /\ Leftover(e)' /\ CallInv(e)' /\ Snapshot(e)' => BaseInv'
        /\ OwnersApart /\ (\A end \in Ends : Holds(e, end)' => Holds(e, end)) => OwnersApart'
    BY <1>0, <2>1, <2>2, <2>3, OwnStep DEF PCs
  <2>5. buffer[e][loc[e].fd] = TRUE
    BY <1>0, <1>l, <2>3 DEF FdHasBuffer, CallInv
  <2>6. FdHasBuffer(e)'
    BY <1>0, <2>2, <2>3 DEF FdHasBuffer, CallInv
  <2>7. Leftover(e)'
    BY <1>0, <2>1, <2>2, <2>3 DEF Leftover
  <2>8. CallInv(e)' /\ Snapshot(e)'
    BY <1>0, <2>1, <2>2, <2>3, <2>5 DEF CallInv, Snapshot
  <2>9. \A end \in Ends : Holds(e, end)' => Holds(e, end)
    BY <2>2 DEF Holds
  <2> QED BY <2>4, <2>6, <2>7, <2>8, <2>9
<1>4. ASSUME dup_fd(e) PROVE BaseInv' /\ (OwnersApart => OwnersApart')
  <2>1. loc' \in [Env -> Locals] /\ loc'[e] = NoLocals /\ \A x \in Env \ {e} : loc'[x] = loc[x]
    BY <1>0, <1>4, NoLocalsType DEF dup_fd, Return, TypeOK
  <2>2. /\ fdpage' \in [Env -> [Fd -> Ends \cup {NONE}]] /\ buffer' \in [Env -> [Fd -> BOOLEAN]]
        /\ \A x \in Env \ {e} : fdpage'[x] = fdpage[x] /\ buffer'[x] = buffer[x]
        /\ buffer' = buffer /\ fdpage'[e][loc[e].newfd] = fdpage[e][loc[e].fd]
        /\ \A g \in Fd \ {loc[e].newfd} : fdpage'[e][g] = fdpage[e][g]
    BY <1>0, <1>l, <1>4 DEF dup_fd, TypeOK
  <2>3. /\ pc' = [pc EXCEPT ![e] = "user"] /\ pc'[e] = "user" /\ pc[e] = "dup_fd"
        /\ UNCHANGED <<status, curenv>> /\ ran' \in [Env -> BOOLEAN]
    BY <1>0, <1>4 DEF dup_fd, Return, Goto, At, TypeOK
  <2>4. /\ FdHasBuffer(e)' /\ Leftover(e)' /\ CallInv(e)' /\ Snapshot(e)' => BaseInv'
        /\ OwnersApart /\ (\A end \in Ends : Holds(e, end)' => Holds(e, end)) => OwnersApart'
    BY <1>0, <2>1, <2>2, <2>3, OwnStep DEF PCs
  <2>5. /\ buffer[e][loc[e].newfd] = TRUE /\ fdpage[e][loc[e].fd] # NONE
    BY <1>0, <2>3 DEF CallInv
  <2>6. FdHasBuffer(e)'
    BY <1>0, <2>2, <2>5 DEF FdHasBuffer
  <2>7. Leftover(e)'
    BY <1>0, <2>2, <2>3, <2>5 DEF Leftover
  <2>8. CallInv(e)' /\ Snapshot(e)'
    BY <2>1, <2>2, <2>3 DEF CallInv, Snapshot
  <2>9. \A end \in Ends : Holds(e, end)' => Holds(e, end)
    BY <1>l, <2>2 DEF Holds
  <2> QED BY <2>4, <2>6, <2>7, <2>8, <2>9
<1> QED BY <1>1, <1>2, <1>3, <1>4

LEMMA RunStep ==
    ASSUME BaseInv, NEW e \in Env, env_run(e)
    PROVE  BaseInv' /\ (OwnersApart => OwnersApart')
<1>0. /\ TypeOK /\ status[e] = "alive" /\ curenv' = e /\ ran'[e] = TRUE
      /\ ran' \in [Env -> BOOLEAN] /\ UNCHANGED <<fdpage, buffer, status, pc, loc>>
  BY DEF BaseInv, env_run, TypeOK
<1>1. TypeOK'
  BY <1>0 DEF TypeOK
<1>2. OnlyLiveAct' /\ FreeHasNothing'
  BY <1>0 DEF BaseInv, OnlyLiveAct, FreeHasNothing
<1>3. \A p, c \in Env : ChildOf(p, c)' <=> ChildOf(p, c)
  BY <1>0 DEF ChildOf
<1>4. ParentKnown'
  BY <1>0, <1>3 DEF BaseInv, ParentKnown
<1>5. ChildHas'
  BY <1>0, <1>3 DEF BaseInv, ChildHas
<1>6. LiveSound'
  <2> SUFFICES ASSUME NEW x \in Env, status[x] = "alive"
               PROVE  FdHasBuffer(x)' /\ Leftover(x)' /\ CallInv(x)' /\ Snapshot(x)'
    BY <1>0 DEF LiveSound
  <2>1. FdHasBuffer(x) /\ Leftover(x) /\ CallInv(x)
    BY DEF BaseInv, LiveSound
  <2> QED BY <1>0, <2>1 DEF FdHasBuffer, Leftover, CallInv, Snapshot
<1>7. OwnersApart => OwnersApart'
  <2>1. \A x \in Env, end \in Ends : Holds(x, end)' <=> Holds(x, end)
    BY <1>0 DEF Holds
  <2> QED BY <1>3, <2>1 DEF OwnersApart
<1> QED BY <1>1, <1>2, <1>4, <1>5, <1>6, <1>7 DEF BaseInv

LEMMA ExitStep ==
    ASSUME BaseInv, NEW e \in Env, exit(e)
    PROVE  BaseInv' /\ (OwnersApart => OwnersApart')
<1>0. /\ TypeOK /\ curenv = e /\ status[e] = "alive" /\ pc[e] = "user" /\ loc[e] = NoLocals
      /\ UNCHANGED <<pc, loc, ran>> /\ curenv' = NONE
  BY DEF BaseInv, LiveSound, CallInv, OnlyLiveAct, exit, At
<1>1. /\ fdpage' \in [Env -> [Fd -> Ends \cup {NONE}]] /\ buffer' \in [Env -> [Fd -> BOOLEAN]]
      /\ status' \in [Env -> {"free", "building", "alive"}] /\ status'[e] = "free"
      /\ \A f \in Fd : fdpage'[e][f] = NONE /\ buffer'[e][f] = FALSE
      /\ \A x \in Env \ {e} : /\ fdpage'[x] = fdpage[x] /\ buffer'[x] = buffer[x]
                              /\ status'[x] = status[x]
  BY <1>0 DEF exit, TypeOK
<1>2. TypeOK'
  BY <1>0, <1>1 DEF TypeOK
<1>3. OnlyLiveAct'
  BY <1>0, <1>1, EnvAssumption DEF BaseInv, OnlyLiveAct
<1>4. FreeHasNothing'
  BY <1>1 DEF BaseInv, FreeHasNothing
<1>5. \A p, c \in Env : /\ ChildOf(p, c)' <=> ChildOf(p, c)
                        /\ ChildOf(p, c) => p # e /\ c # e
  BY <1>0 DEF BaseInv, ParentKnown, ChildOf
<1>6. ParentKnown'
  <2>1. \A p \in Env : pc'[p] = "fork" => loc'[p].child \in Env
    BY <1>0 DEF BaseInv, ParentKnown
  <2>2. \A p, c \in Env : ChildOf(p, c)' => status'[c] = "building"
    BY <1>1, <1>5 DEF BaseInv, ParentKnown
  <2>3. \A c \in Env : status'[c] = "building" => \E p \in Env : ChildOf(p, c)'
    BY <1>1, <1>5 DEF BaseInv, ParentKnown
  <2>4. \A p, q, c \in Env : ChildOf(p, c)' /\ ChildOf(q, c)' => p = q
    BY <1>5 DEF BaseInv, ParentKnown
  <2> QED BY <2>1, <2>2, <2>3, <2>4 DEF ParentKnown
<1>7. ChildHas'
  <2> SUFFICES ASSUME NEW p \in Env, NEW c \in Env, ChildOf(p, c)', NEW f \in Fd
               PROVE  /\ f < loc'[p].next => fdpage'[c][f] = fdpage'[p][f]
                      /\ f >= loc'[p].next => fdpage'[c][f] = NONE
                      /\ f + NFd < loc'[p].next => buffer'[c][f] = buffer'[p][f]
                      /\ f + NFd >= loc'[p].next => buffer'[c][f] = FALSE
    BY DEF ChildHas
  <2>1. ChildOf(p, c) /\ p # e /\ c # e
    BY <1>5
  <2>2. loc'[p] = loc[p] /\ fdpage'[p] = fdpage[p] /\ buffer'[p] = buffer[p]
    BY <1>0, <1>1, <2>1
  <2>3. fdpage'[c] = fdpage[c] /\ buffer'[c] = buffer[c]
    BY <1>1, <2>1
  <2> QED BY <2>1, <2>2, <2>3 DEF BaseInv, ChildHas
<1>8. LiveSound'
  <2> SUFFICES ASSUME NEW x \in Env, status'[x] = "alive"
               PROVE  FdHasBuffer(x)' /\ Leftover(x)' /\ CallInv(x)' /\ Snapshot(x)'
    BY DEF LiveSound
  <2>1. FdHasBuffer(x) /\ Leftover(x) /\ CallInv(x) /\ curenv' # x
    BY <1>0, <1>1, EnvAssumption DEF BaseInv, LiveSound
  <2>2. fdpage'[x] = fdpage[x] /\ buffer'[x] = buffer[x] /\ loc'[x] = loc[x] /\ pc'[x] = pc[x]
    BY <1>0, <1>1
  <2> QED BY <2>1, <2>2 DEF FdHasBuffer, Leftover, CallInv, Snapshot
<1>9. OwnersApart => OwnersApart'
  <2>1. \A x \in Env, end \in Ends : Holds(x, end)' => Holds(x, end)
    BY <1>1, NoneAssumption DEF Holds
  <2> QED BY <1>5, <2>1 DEF OwnersApart
<1> QED BY <1>2, <1>3, <1>4, <1>6, <1>7, <1>8, <1>9 DEF BaseInv

LEMMA ForkStep ==
    ASSUME BaseInv, NEW e \in Env, NEW child \in Env, fork(e, child)
    PROVE  BaseInv' /\ (~SharedFork /\ OwnersApart => OwnersApart')
<1>0. /\ TypeOK /\ curenv = e /\ status[e] = "alive" /\ pc[e] = "user" /\ loc[e] = NoLocals
      /\ status[child] = "free" /\ child # e /\ UNCHANGED <<fdpage, buffer, ran, curenv>>
  BY DEF BaseInv, LiveSound, CallInv, OnlyLiveAct, fork, At
<1>l. /\ loc[e] \in Locals /\ loc[e].fd \in Fd /\ loc[e].newfd \in Fd
      /\ loc[e].child \in Env \cup {NONE} /\ loc[e].next \in 0..(2 * NFd)
      /\ loc[e].fd_ref \in Nat /\ loc[e].pipe_ref \in Nat
  BY <1>0, LocalFields
<1>1. /\ loc' \in [Env -> Locals] /\ loc'[e].child = child /\ loc'[e].next = loc[e].next
      /\ \A x \in Env \ {e} : loc'[x] = loc[x]
  BY <1>0, <1>l DEF fork, Locals, TypeOK
<1>2. /\ status' \in [Env -> {"free", "building", "alive"}] /\ status'[child] = "building"
      /\ \A x \in Env \ {child} : status'[x] = status[x]
      /\ pc' \in [Env -> PCs] /\ pc'[e] = "fork" /\ \A x \in Env \ {e} : pc'[x] = pc[x]
  BY <1>0 DEF fork, Goto, TypeOK, PCs
<1>n. loc'[e].next = 0
  BY <1>0, <1>1 DEF NoLocals
<1>3. TypeOK'
  BY <1>0, <1>1, <1>2 DEF TypeOK
<1>4. OnlyLiveAct' /\ FreeHasNothing'
  <2>1. ASSUME NEW x \in Env, status'[x] # "alive"
        PROVE  pc'[x] = pc[x] /\ loc'[x] = loc[x] /\ status[x] # "alive"
    BY <1>0, <1>1, <1>2, <2>1
  <2>2. OnlyLiveAct'
    BY <1>0, <1>2, <2>1 DEF BaseInv, OnlyLiveAct
  <2>3. FreeHasNothing'
    BY <1>0, <1>2 DEF BaseInv, FreeHasNothing
  <2> QED BY <2>2, <2>3
<1>5. /\ \A p, c \in Env : ChildOf(p, c)' <=> ChildOf(p, c) \/ (p = e /\ c = child)
      /\ \A p, c \in Env : ChildOf(p, c) => p # e /\ c # child
  <2>1. \A p, c \in Env : ChildOf(p, c) => p # e /\ c # child
    BY <1>0 DEF BaseInv, ParentKnown, ChildOf
  <2>2. ASSUME NEW p \in Env, NEW c \in Env
        PROVE  ChildOf(p, c)' <=> ChildOf(p, c) \/ (p = e /\ c = child)
    <3>1. CASE p = e
      BY <3>1, <1>1, <1>2, <2>1 DEF ChildOf
    <3>2. CASE p # e
      BY <3>2, <1>1, <1>2 DEF ChildOf
    <3> QED BY <3>1, <3>2
  <2> QED BY <2>1, <2>2
<1>6. ParentKnown'
  <2>1. \A p \in Env : pc'[p] = "fork" => loc'[p].child \in Env
    BY <1>1, <1>2 DEF BaseInv, ParentKnown
  <2>2. \A p, c \in Env : ChildOf(p, c)' => status'[c] = "building"
    BY <1>2, <1>5 DEF BaseInv, ParentKnown
  <2>3. \A c \in Env : status'[c] = "building" => \E p \in Env : ChildOf(p, c)'
    BY <1>2, <1>5 DEF BaseInv, ParentKnown
  <2>4. \A p, q, c \in Env : ChildOf(p, c)' /\ ChildOf(q, c)' => p = q
    BY <1>5 DEF BaseInv, ParentKnown
  <2> QED BY <2>1, <2>2, <2>3, <2>4 DEF ParentKnown
<1>7. ChildHas'
  <2> SUFFICES ASSUME NEW p \in Env, NEW c \in Env, ChildOf(p, c)', NEW f \in Fd
               PROVE  /\ f < loc'[p].next => fdpage'[c][f] = fdpage'[p][f]
                      /\ f >= loc'[p].next => fdpage'[c][f] = NONE
                      /\ f + NFd < loc'[p].next => buffer'[c][f] = buffer'[p][f]
                      /\ f + NFd >= loc'[p].next => buffer'[c][f] = FALSE
    BY DEF ChildHas
  <2>1. CASE ChildOf(p, c)
    <3>1. loc'[p] = loc[p]
      BY <1>1, <1>5, <2>1
    <3> QED BY <1>0, <2>1, <3>1 DEF BaseInv, ChildHas
  <2>2. CASE p = e /\ c = child
    <3>1. fdpage[c][f] = NONE /\ buffer[c][f] = FALSE
      BY <1>0, <2>2 DEF BaseInv, FreeHasNothing
    <3>2. f \in Nat /\ NFd \in Nat /\ f + NFd >= 0 /\ ~(f < 0) /\ ~(f + NFd < 0)
      BY FdFacts, FdAssumption
    <3> QED BY <1>0, <1>n, <2>2, <3>1, <3>2
  <2> QED BY <1>5, <2>1, <2>2
<1>8. LiveSound'
  <2> SUFFICES ASSUME NEW x \in Env, status'[x] = "alive"
               PROVE  FdHasBuffer(x)' /\ Leftover(x)' /\ CallInv(x)' /\ Snapshot(x)'
    BY DEF LiveSound
  <2>1. x # child /\ FdHasBuffer(x) /\ Leftover(x) /\ CallInv(x)
    BY <1>2 DEF BaseInv, LiveSound
  <2>2. CASE x = e
    BY <1>0, <1>2, <2>1, <2>2 DEF FdHasBuffer, Leftover, CallInv, Snapshot
  <2>3. CASE x # e
    <3>1. loc'[x] = loc[x] /\ pc'[x] = pc[x]
      BY <1>1, <1>2, <2>3
    <3> QED BY <1>0, <2>1, <2>3, <3>1 DEF FdHasBuffer, Leftover, CallInv, Snapshot
  <2> QED BY <2>2, <2>3
<1>9. ~SharedFork /\ OwnersApart => OwnersApart'
  <2>1. \A x \in Env, end \in Ends : Holds(x, end)' <=> Holds(x, end)
    BY <1>0 DEF Holds
  <2>2. ~SharedFork => \A x \in Env \ {e}, end \in Ends : ~(Holds(x, end) /\ Holds(e, end))
    BY DEF fork
  <2> QED BY <1>5, <2>1, <2>2 DEF OwnersApart
<1> QED BY <1>3, <1>4, <1>6, <1>7, <1>8, <1>9 DEF BaseInv

LEMMA DuppageStep ==
    ASSUME BaseInv, NEW e \in Env, fork_duppage(e)
    PROVE  BaseInv' /\ (OwnersApart => OwnersApart')
<1>c. PICK c \in Env : c = loc[e].child
  BY DEF BaseInv, ParentKnown, fork_duppage, At
<1>0. /\ TypeOK /\ curenv = e /\ status[e] = "alive" /\ pc[e] = "fork" /\ ChildOf(e, c)
      /\ status[c] = "building" /\ c # e /\ pc[c] # "fork"
      /\ UNCHANGED <<status, pc, ran, curenv>>
  BY <1>c DEF BaseInv, ParentKnown, OnlyLiveAct, ChildOf, fork_duppage, At
<1>l. /\ loc[e] \in Locals /\ loc[e].fd \in Fd /\ loc[e].newfd \in Fd
      /\ loc[e].child \in Env \cup {NONE} /\ loc[e].next \in 0..(2 * NFd)
      /\ loc[e].fd_ref \in Nat /\ loc[e].pipe_ref \in Nat
  BY <1>0, LocalFields
<1>n. PICK n \in Nat : n = loc[e].next /\ n < 2 * NFd
  BY <1>l DEF fork_duppage
<1>1. /\ loc' \in [Env -> Locals] /\ loc'[e].next = n + 1 /\ loc'[e].child = c
      /\ \A x \in Env \ {e} : loc'[x] = loc[x]
  <2>1. n + 1 \in 0..(2 * NFd)
    BY <1>n, FdAssumption
  <2>2. loc' = [loc EXCEPT ![e].next = n + 1]
    BY <1>n DEF fork_duppage
  <2>3. [loc[e] EXCEPT !.next = n + 1] \in Locals
    BY <1>l, <2>1 DEF Locals
  <2> QED BY <1>0, <1>l, <1>c, <2>2, <2>3 DEF Locals, TypeOK
<1>2. IF n < NFd
      THEN fdpage' = [fdpage EXCEPT ![c][n] = fdpage[e][n]] /\ buffer' = buffer
      ELSE buffer' = [buffer EXCEPT ![c][n - NFd] = buffer[e][n - NFd]] /\ fdpage' = fdpage
  BY <1>c, <1>n DEF fork_duppage
<1>i. /\ n < NFd => n \in Fd
      /\ ~(n < NFd) => n - NFd \in Fd
  BY <1>n, FdFacts, FdAssumption
<1>3. /\ fdpage' \in [Env -> [Fd -> Ends \cup {NONE}]] /\ buffer' \in [Env -> [Fd -> BOOLEAN]]
      /\ \A x \in Env \ {c} : fdpage'[x] = fdpage[x] /\ buffer'[x] = buffer[x]
      /\ \A f \in Fd : fdpage'[c][f] = IF f = n THEN fdpage[e][f] ELSE fdpage[c][f]
      /\ \A f \in Fd : buffer'[c][f] = IF f + NFd = n THEN buffer[e][f] ELSE buffer[c][f]
  <2>1. CASE n < NFd
    <3>1. fdpage' = [fdpage EXCEPT ![c][n] = fdpage[e][n]] /\ buffer' = buffer /\ n \in Fd
      BY <1>2, <1>i, <2>1
    <3>2. \A f \in Fd : f + NFd # n
      BY <1>n, <2>1, FdFacts, FdAssumption
    <3> QED BY <1>0, <3>1, <3>2 DEF TypeOK
  <2>2. CASE ~(n < NFd)
    <3>0. PICK m \in Fd : m = n - NFd
      BY <1>i, <2>2
    <3>1. buffer' = [buffer EXCEPT ![c][m] = buffer[e][m]] /\ fdpage' = fdpage
      BY <1>2, <3>0, <2>2
    <3>2. \A f \in Fd : f # n /\ (f + NFd = n <=> f = m)
      BY <1>n, <2>2, <3>0, FdFacts, FdAssumption
    <3> QED BY <1>0, <3>1, <3>2 DEF TypeOK
  <2> QED BY <2>1, <2>2
<1>4. TypeOK'
  BY <1>0, <1>1, <1>3 DEF TypeOK
<1>5. OnlyLiveAct' /\ FreeHasNothing'
  <2>1. OnlyLiveAct'
    BY <1>0, <1>1 DEF BaseInv, OnlyLiveAct
  <2>2. FreeHasNothing'
    BY <1>0, <1>3 DEF BaseInv, FreeHasNothing
  <2> QED BY <2>1, <2>2
<1>6. \A p, q \in Env : ChildOf(p, q)' <=> ChildOf(p, q)
  <2> SUFFICES ASSUME NEW p \in Env, NEW q \in Env PROVE ChildOf(p, q)' <=> ChildOf(p, q)
    OBVIOUS
  <2>1. loc'[p].child = loc[p].child
    BY <1>1, <1>c
  <2> QED BY <1>0, <2>1 DEF ChildOf
<1>7. ParentKnown'
  <2>1. \A p \in Env : pc'[p] = "fork" => loc'[p].child \in Env
    BY <1>0, <1>1 DEF BaseInv, ParentKnown
  <2>2. /\ \A p, q \in Env : ChildOf(p, q)' => status'[q] = "building"
        /\ \A q \in Env : status'[q] = "building" => \E p \in Env : ChildOf(p, q)'
        /\ \A p, r, q \in Env : ChildOf(p, q)' /\ ChildOf(r, q)' => p = r
    BY <1>0, <1>6 DEF BaseInv, ParentKnown
  <2> QED BY <2>1, <2>2 DEF ParentKnown
<1>p. /\ \A p, q \in Env : ChildOf(p, q) => p # c /\ q # e
      /\ \A p \in Env : ChildOf(p, c) => p = e
      /\ \A q \in Env : ChildOf(e, q) => q = c
  BY <1>0, <1>c DEF BaseInv, ParentKnown, ChildOf
<1>8. ChildHas'
  <2> SUFFICES ASSUME NEW p \in Env, NEW q \in Env, ChildOf(p, q), NEW f \in Fd
               PROVE  /\ f < loc'[p].next => fdpage'[q][f] = fdpage'[p][f]
                      /\ f >= loc'[p].next => fdpage'[q][f] = NONE
                      /\ f + NFd < loc'[p].next => buffer'[q][f] = buffer'[p][f]
                      /\ f + NFd >= loc'[p].next => buffer'[q][f] = FALSE
    BY <1>6 DEF ChildHas
  <2>1. /\ f < loc[p].next => fdpage[q][f] = fdpage[p][f]
        /\ f >= loc[p].next => fdpage[q][f] = NONE
        /\ f + NFd < loc[p].next => buffer[q][f] = buffer[p][f]
        /\ f + NFd >= loc[p].next => buffer[q][f] = FALSE
    BY DEF BaseInv, ChildHas
  <2>2. CASE p = e
    <3>1. q = c /\ fdpage'[e] = fdpage[e] /\ buffer'[e] = buffer[e]
      BY <1>p, <1>0, <1>3, <2>2
    <3>2. /\ fdpage'[c][f] = IF f = n THEN fdpage[e][f] ELSE fdpage[c][f]
          /\ buffer'[c][f] = IF f + NFd = n THEN buffer[e][f] ELSE buffer[c][f]
      BY <1>3
    <3>3. f \in Nat /\ NFd \in Nat /\ f + NFd \in Nat
      BY FdFacts, FdAssumption
    <3>4. /\ f < n => fdpage[c][f] = fdpage[e][f]
          /\ f >= n => fdpage[c][f] = NONE
          /\ f + NFd < n => buffer[c][f] = buffer[e][f]
          /\ f + NFd >= n => buffer[c][f] = FALSE
      BY <1>n, <2>1, <2>2, <3>1
    <3>5. /\ f < n + 1 => fdpage'[c][f] = fdpage[e][f]
          /\ f >= n + 1 => fdpage'[c][f] = NONE
      BY <3>2, <3>3, <3>4
    <3>6. /\ f + NFd < n + 1 => buffer'[c][f] = buffer[e][f]
          /\ f + NFd >= n + 1 => buffer'[c][f] = FALSE
      BY <3>2, <3>3, <3>4
    <3> QED BY <1>1, <2>2, <3>1, <3>5, <3>6
  <2>3. CASE p # e
    <3>1. p # c /\ q # c
      BY <1>p, <2>3
    <3>2. fdpage'[p] = fdpage[p] /\ buffer'[p] = buffer[p] /\ loc'[p] = loc[p]
      BY <1>1, <1>3, <2>3, <3>1
    <3>3. fdpage'[q] = fdpage[q] /\ buffer'[q] = buffer[q]
      BY <1>3, <3>1
    <3> QED BY <2>1, <3>2, <3>3
  <2> QED BY <2>2, <2>3
<1>9. LiveSound'
  <2> SUFFICES ASSUME NEW x \in Env, status[x] = "alive"
               PROVE  FdHasBuffer(x)' /\ Leftover(x)' /\ CallInv(x)' /\ Snapshot(x)'
    BY <1>0 DEF LiveSound
  <2>1. /\ FdHasBuffer(x) /\ Leftover(x) /\ CallInv(x)
        /\ fdpage'[x] = fdpage[x] /\ buffer'[x] = buffer[x] /\ pc'[x] = pc[x]
    BY <1>0, <1>3 DEF BaseInv, LiveSound
  <2>2. CASE x = e
    BY <1>0, <2>1, <2>2 DEF FdHasBuffer, Leftover, CallInv, Snapshot
  <2>3. CASE x # e
    <3>1. loc'[x] = loc[x]
      BY <1>1, <2>3
    <3> QED BY <1>0, <2>1, <2>3, <3>1 DEF FdHasBuffer, Leftover, CallInv, Snapshot
  <2> QED BY <2>2, <2>3
<1>10. ASSUME OwnersApart PROVE OwnersApart'
  <2>1. /\ \A x \in Env \ {c}, end \in Ends : Holds(x, end)' => Holds(x, end)
        /\ \A end \in Ends : Holds(c, end)' => Holds(c, end) \/ Holds(e, end)
    BY <1>3 DEF Holds
  <2> SUFFICES ASSUME NEW p \in Env, NEW q \in Env, NEW x \in Env, ChildOf(p, q), x # p, x # q,
                      NEW end \in Ends, Holds(x, end)', Holds(p, end)'
               PROVE  FALSE
    BY <1>6 DEF OwnersApart
  <2>2. Holds(p, end)
    BY <1>p, <2>1
  <2>3. CASE x # c
    BY <1>10, <2>1, <2>2, <2>3 DEF OwnersApart
  <2>4. CASE x = c
    <3>1. e # p /\ e # q
      BY <1>p, <2>4
    <3> QED BY <1>10, <2>1, <2>2, <2>4, <3>1 DEF OwnersApart
  <2> QED BY <2>3, <2>4
<1> QED BY <1>4, <1>5, <1>7, <1>8, <1>9, <1>10 DEF BaseInv

LEMMA ForkDoneStep ==
    ASSUME BaseInv, NEW e \in Env, fork_done(e)
    PROVE  BaseInv' /\ (OwnersApart => OwnersApart')
<1>c. PICK c \in Env : c = loc[e].child
  BY DEF BaseInv, ParentKnown, fork_done, At
<1>0. /\ TypeOK /\ curenv = e /\ status[e] = "alive" /\ pc[e] = "fork" /\ ChildOf(e, c)
      /\ status[c] = "building" /\ c # e /\ pc[c] = "user" /\ loc[c] = NoLocals
      /\ UNCHANGED <<fdpage, buffer, ran, curenv>> /\ loc[e].next = 2 * NFd
  BY <1>c DEF BaseInv, ParentKnown, OnlyLiveAct, ChildOf, fork_done, At
<1>1. /\ loc' \in [Env -> Locals] /\ loc'[e] = NoLocals
      /\ \A x \in Env \ {e} : loc'[x] = loc[x]
      /\ status' \in [Env -> {"free", "building", "alive"}] /\ status'[c] = "alive"
      /\ \A x \in Env \ {c} : status'[x] = status[x]
      /\ pc' \in [Env -> PCs] /\ pc'[e] = "user" /\ \A x \in Env \ {e} : pc'[x] = pc[x]
  BY <1>0, <1>c, NoLocalsType DEF fork_done, Return, Goto, TypeOK, PCs
<1>2. TypeOK'
  BY <1>0, <1>1 DEF TypeOK
<1>3. OnlyLiveAct'
  BY <1>0, <1>1 DEF BaseInv, OnlyLiveAct
<1>4. FreeHasNothing'
  BY <1>0, <1>1 DEF BaseInv, FreeHasNothing
<1>p. /\ \A p, q \in Env : ChildOf(p, q) => p # c /\ q # e
      /\ \A p \in Env : ChildOf(p, c) => p = e
      /\ \A q \in Env : ChildOf(e, q) => q = c
  BY <1>0, <1>c DEF BaseInv, ParentKnown, ChildOf
<1>5. \A p, q \in Env : ChildOf(p, q)' <=> ChildOf(p, q) /\ p # e
  <2> SUFFICES ASSUME NEW p \in Env, NEW q \in Env PROVE ChildOf(p, q)' <=> ChildOf(p, q) /\ p # e
    OBVIOUS
  <2>1. CASE p = e
    BY <1>1, <2>1 DEF ChildOf
  <2>2. CASE p # e
    <3>1. pc'[p] = pc[p] /\ loc'[p] = loc[p]
      BY <1>1, <2>2
    <3> QED BY <2>2, <3>1 DEF ChildOf
  <2> QED BY <2>1, <2>2
<1>6. ParentKnown'
  <2>1. \A p \in Env : pc'[p] = "fork" => loc'[p].child \in Env
    BY <1>1 DEF BaseInv, ParentKnown
  <2>2. \A p, q \in Env : ChildOf(p, q)' => status'[q] = "building"
    BY <1>1, <1>5, <1>p DEF BaseInv, ParentKnown
  <2>3. \A q \in Env : status'[q] = "building" => \E p \in Env : ChildOf(p, q)'
    BY <1>1, <1>5, <1>p DEF BaseInv, ParentKnown
  <2>4. \A p, r, q \in Env : ChildOf(p, q)' /\ ChildOf(r, q)' => p = r
    BY <1>5 DEF BaseInv, ParentKnown
  <2> QED BY <2>1, <2>2, <2>3, <2>4 DEF ParentKnown
<1>7. ChildHas'
  <2>1. \A p, q \in Env : ChildOf(p, q)' => ChildOf(p, q) /\ loc'[p] = loc[p]
    BY <1>1, <1>5
  <2> QED BY <1>0, <2>1 DEF BaseInv, ChildHas
<1>8. LiveSound'
  <2>e. FdHasBuffer(e) /\ Leftover(e)
    BY <1>0 DEF BaseInv, LiveSound
  <2> SUFFICES ASSUME NEW x \in Env, status'[x] = "alive"
               PROVE  FdHasBuffer(x)' /\ Leftover(x)' /\ CallInv(x)' /\ Snapshot(x)'
    BY DEF LiveSound
  <2>1. CASE x = e
    BY <1>0, <1>1, <2>e, <2>1 DEF FdHasBuffer, Leftover, CallInv, Snapshot
  <2>2. CASE x = c
    <3>1. \A f \in Fd : fdpage[c][f] = fdpage[e][f] /\ buffer[c][f] = buffer[e][f]
      <4> SUFFICES ASSUME NEW f \in Fd
                   PROVE  fdpage[c][f] = fdpage[e][f] /\ buffer[c][f] = buffer[e][f]
        OBVIOUS
      <4>1. f < loc[e].next /\ f + NFd < loc[e].next
        BY <1>0, FdFacts, FdAssumption
      <4> QED BY <1>0, <4>1 DEF BaseInv, ChildHas
    <3>2. FdHasBuffer(c)'
      BY <1>0, <2>e, <3>1 DEF FdHasBuffer
    <3>3. Leftover(c)'
      BY <1>0, <2>e, <3>1 DEF Leftover
    <3>4. CallInv(c)' /\ Snapshot(c)'
      BY <1>0, <1>1 DEF CallInv, Snapshot
    <3> QED BY <2>2, <3>2, <3>3, <3>4
  <2>3. CASE x # e /\ x # c
    <3>1. FdHasBuffer(x) /\ Leftover(x) /\ CallInv(x) /\ loc'[x] = loc[x] /\ pc'[x] = pc[x]
      BY <1>1, <2>3 DEF BaseInv, LiveSound
    <3> QED BY <1>0, <2>3, <3>1 DEF FdHasBuffer, Leftover, CallInv, Snapshot
  <2> QED BY <2>1, <2>2, <2>3
<1>9. OwnersApart => OwnersApart'
  <2>1. \A x \in Env, end \in Ends : Holds(x, end)' <=> Holds(x, end)
    BY <1>0 DEF Holds
  <2> QED BY <1>5, <2>1 DEF OwnersApart
<1> QED BY <1>2, <1>3, <1>4, <1>6, <1>7, <1>8, <1>9 DEF BaseInv

-----------------------------------------------------------------------------
(* The invariants, and what they say of an answer.                         *)

LEMMA NextBase ==
    ASSUME BaseInv, [Next]_vars
    PROVE  BaseInv' /\ (~SharedFork /\ OwnersApart => OwnersApart')
<1>1. CASE UNCHANGED vars
  <2>0. UNCHANGED <<fdpage, buffer, status, pc, loc, ran, curenv>>
    BY <1>1 DEF vars
  <2>1. /\ \A p, c \in Env : ChildOf(p, c)' <=> ChildOf(p, c)
        /\ \A x \in Env, end \in Ends : Holds(x, end)' <=> Holds(x, end)
    BY <2>0 DEF ChildOf, Holds
  <2>2. \A x \in Env : /\ FdHasBuffer(x)' <=> FdHasBuffer(x)
                       /\ Leftover(x)' <=> Leftover(x)
                       /\ CallInv(x)' <=> CallInv(x)
    BY <2>0 DEF FdHasBuffer, Leftover, CallInv
  <2>3. \A x \in Env : Snapshot(x)' <=> Snapshot(x)
    BY <2>0 DEF Snapshot, pageref_fd, pageref_pipe, FdSlots, BufferSlots
  <2>4. LiveSound'
    BY <2>0, <2>2, <2>3 DEF BaseInv, LiveSound
  <2>5. TypeOK' /\ OnlyLiveAct' /\ FreeHasNothing'
    BY <2>0 DEF BaseInv, TypeOK, OnlyLiveAct, FreeHasNothing
  <2>6. ParentKnown' /\ ChildHas'
    BY <2>0, <2>1 DEF BaseInv, ParentKnown, ChildHas
  <2>7. OwnersApart => OwnersApart'
    BY <2>1 DEF OwnersApart
  <2> QED BY <2>4, <2>5, <2>6, <2>7 DEF BaseInv
<1>2. ASSUME NEW e \in Env, env_run(e) \/ LibraryStep(e)
      PROVE  BaseInv' /\ (~SharedFork /\ OwnersApart => OwnersApart')
  <2>1. CASE env_run(e)
    BY <2>1, RunStep
  <2>2. CASE (\E f \in Fd : close(e, f)) \/ close_data(e)
    BY <2>2, CloseStep
  <2>3. CASE (\E f, g \in Fd : dup(e, f, g)) \/ dup_close_data(e) \/ dup_data(e) \/ dup_fd(e)
    BY <2>3, DupStep
  <2>4. CASE \/ \E f \in Fd : pipe_is_closed(e, f)
             \/ read_runs(e) \/ read_fd_ref(e) \/ read_pipe_ref(e) \/ retry(e) \/ answer(e)
    BY <2>4, AskStep
  <2>5. CASE \E child \in Env : fork(e, child)
    BY <2>5, ForkStep
  <2>6. CASE fork_duppage(e)
    BY <2>6, DuppageStep
  <2>7. CASE fork_done(e)
    BY <2>7, ForkDoneStep
  <2>8. CASE exit(e)
    BY <2>8, ExitStep
  <2> QED BY <1>2, <2>1, <2>2, <2>3, <2>4, <2>5, <2>6, <2>7, <2>8 DEF LibraryStep
<1> QED BY <1>1, <1>2 DEF Next

\* What is mapped belongs to a live environment or was copied from one: every Fd
\* page is mapped by a live environment at the same descriptor.
LEMMA LiveOrigin ==
    ASSUME BaseInv, NEW x \in Env, NEW f \in Fd, fdpage[x][f] # NONE
    PROVE  \E y \in Env : /\ status[y] = "alive" /\ fdpage[y][f] = fdpage[x][f]
                          /\ y = x \/ ChildOf(y, x)
<1>0. TypeOK
  BY DEF BaseInv
<1>1. CASE status[x] = "alive"
  BY <1>1
<1>2. CASE status[x] = "building"
  <2>1. PICK p \in Env : ChildOf(p, x)
    BY <1>2 DEF BaseInv, ParentKnown
  <2>2. status[p] = "alive"
    BY <2>1 DEF BaseInv, OnlyLiveAct, ChildOf
  <2>3. loc[p].next \in Nat /\ f \in Nat
    BY <1>0, LocalFields, FdFacts, FdAssumption
  <2>4. fdpage[x][f] = fdpage[p][f]
    BY <2>1, <2>3 DEF BaseInv, ChildHas
  <2> QED BY <2>1, <2>2, <2>4
<1>3. status[x] # "free"
  BY DEF BaseInv, FreeHasNothing
<1> QED BY <1>0, <1>1, <1>2, <1>3 DEF TypeOK

\* A buffer that nobody is closing or duplicating has an Fd page beside it.
LEMMA BufferHasFd ==
    ASSUME BaseInv, NEW x \in Env, NEW f \in Fd, buffer[x][f] = TRUE,
           \A y \in Env : pc[y] \notin {"close_data", "dup_close_data", "dup_fd"}
    PROVE  fdpage[x][f] # NONE
<1>0. TypeOK
  BY DEF BaseInv
<1>1. CASE status[x] = "alive"
  BY <1>1 DEF BaseInv, LiveSound, Leftover
<1>2. CASE status[x] = "building"
  <2>1. PICK p \in Env : ChildOf(p, x)
    BY <1>2 DEF BaseInv, ParentKnown
  <2>2. status[p] = "alive"
    BY <2>1 DEF BaseInv, OnlyLiveAct, ChildOf
  <2>3. loc[p].next \in Nat /\ f \in Nat /\ NFd \in Nat
    BY <1>0, LocalFields, FdFacts, FdAssumption
  <2>4. f + NFd < loc[p].next /\ buffer[p][f] = buffer[x][f]
    BY <2>1, <2>3 DEF BaseInv, ChildHas
  <2>5. f < loc[p].next
    BY <2>3, <2>4
  <2>6. fdpage[x][f] = fdpage[p][f]
    BY <2>1, <2>5 DEF BaseInv, ChildHas
  <2>7. fdpage[p][f] # NONE
    BY <2>2, <2>4 DEF BaseInv, LiveSound, Leftover
  <2> QED BY <2>6, <2>7
<1>3. status[x] # "free"
  BY DEF BaseInv, FreeHasNothing
<1> QED BY <1>0, <1>1, <1>2, <1>3 DEF TypeOK

\* When nobody shares an end by a fork in progress, every mapping of the caller's
\* end has its buffer.
LEMMA OwnEndHasBuffers ==
    ASSUME BaseInv, OwnersApart, NEW e \in Env, Answering(e), NEW end \in Ends,
           end = fdpage[e][loc[e].fd]
    PROVE  FdSlots(end) \subseteq BufferSlots
<1>0. TypeOK /\ status[e] = "alive" /\ pc[e] = "again" /\ loc[e].fd \in Fd
  BY LocalFields DEF BaseInv, OnlyLiveAct, Answering, At
<1>1. Holds(e, end)
  BY <1>0 DEF Holds
<1> SUFFICES ASSUME NEW x \in Env, NEW f \in Fd, fdpage[x][f] = end PROVE buffer[x][f] = TRUE
  BY DEF FdSlots, BufferSlots, Slots
<1>2. fdpage[x][f] # NONE
  BY NoneAssumption
<1>3. PICK y \in Env : status[y] = "alive" /\ fdpage[y][f] = fdpage[x][f] /\ (y = x \/ ChildOf(y, x))
  BY <1>2, LiveOrigin
<1>4. CASE y = x
  BY <1>2, <1>3, <1>4 DEF BaseInv, LiveSound, FdHasBuffer
<1>5. CASE ChildOf(y, x)
  <2>1. e # y /\ e # x
    BY <1>0, <1>5 DEF BaseInv, ParentKnown, ChildOf
  <2>2. Holds(y, end)
    BY <1>3 DEF Holds
  <2> QED BY <1>1, <1>5, <2>1, <2>2 DEF OwnersApart
<1> QED BY <1>3, <1>4, <1>5

LEMMA AnswersAreRight ==
    ASSUME BaseInv, OwnersApart PROVE AnswerRight
<1>0. TypeOK
  BY DEF BaseInv
<1>1. ASSUME NEW e \in Env, Answering(e)
      PROVE  /\ AnswersClosed(e) => ~EndOpen(Other(fdpage[e][loc[e].fd]))
             /\ ~AnswersClosed(e) /\ (\A x \in Env : pc[x] \notin {"close_data", "dup_close_data", "dup_fd"})
                   => EndOpen(Other(fdpage[e][loc[e].fd]))
  <2>0. /\ status[e] = "alive" /\ pc[e] = "again" /\ loc[e].fd \in Fd
        /\ curenv = e /\ ran[e] = FALSE
    BY <1>0, <1>1, LocalFields DEF BaseInv, OnlyLiveAct, Answering, At, TypeOK
  <2>1. PICK end \in Ends : end = fdpage[e][loc[e].fd]
    BY <1>0, <2>0 DEF BaseInv, LiveSound, CallInv, TypeOK
  <2>2. FdSlots(end) \subseteq BufferSlots
    BY <1>1, <2>1, OwnEndHasBuffers
  <2>3. loc[e].fd_ref = Cardinality(FdSlots(end)) /\ loc[e].pipe_ref = Cardinality(BufferSlots)
    BY <2>0, <2>1 DEF BaseInv, LiveSound, Snapshot, pageref_fd, pageref_pipe
  <2>o. PICK other \in Ends : /\ other = Other(end) /\ other # end
                              /\ \A z \in Ends : z # other => z = end
    BY DEF Ends, Other
  <2>4. ASSUME AnswersClosed(e), NEW x \in Env, NEW f \in Fd, fdpage[x][f] = other PROVE FALSE
    <3>1. FdSlots(end) = BufferSlots
      BY <2>2, <2>3, <2>4, CountsAreNumbers, FS_Subset DEF AnswersClosed
    <3>2. fdpage[x][f] # NONE
      BY <2>4, NoneAssumption
    <3>3. PICK y \in Env : status[y] = "alive" /\ fdpage[y][f] = fdpage[x][f]
      BY <3>2, LiveOrigin
    <3>4. buffer[y][f] = TRUE
      BY <3>2, <3>3 DEF BaseInv, LiveSound, FdHasBuffer
    <3>5. <<y, f>> \in FdSlots(end)
      BY <3>1, <3>4 DEF BufferSlots, Slots
    <3> QED BY <2>o, <2>4, <3>3, <3>5 DEF FdSlots
  <2>5. ASSUME ~AnswersClosed(e),
               \A x \in Env : pc[x] \notin {"close_data", "dup_close_data", "dup_fd"},
               ~EndOpen(other)
        PROVE  FALSE
    <3>1. ASSUME NEW x \in Env, NEW f \in Fd, buffer[x][f] = TRUE PROVE fdpage[x][f] = end
      <4>1. fdpage[x][f] # NONE
        BY <2>5, <3>1, BufferHasFd
      <4>2. fdpage[x][f] \in Ends
        BY <1>0, <4>1 DEF TypeOK
      <4>3. fdpage[x][f] # other
        BY <2>5 DEF EndOpen, Holds
      <4> QED BY <2>o, <4>2, <4>3
    <3>2. BufferSlots \subseteq FdSlots(end)
      <4> SUFFICES ASSUME NEW z \in BufferSlots PROVE z \in FdSlots(end)
        OBVIOUS
      <4>1. z \in Slots /\ z[1] \in Env /\ z[2] \in Fd /\ buffer[z[1]][z[2]]
        BY DEF BufferSlots, Slots
      <4>2. buffer[z[1]][z[2]] = TRUE
        BY <1>0, <4>1 DEF TypeOK
      <4>3. fdpage[z[1]][z[2]] = end
        BY <3>1, <4>1, <4>2
      <4> QED BY <4>1, <4>3 DEF FdSlots
    <3>3. BufferSlots = FdSlots(end)
      BY <2>2, <3>2
    <3> QED BY <2>3, <2>5, <3>3 DEF AnswersClosed
  <2> QED BY <2>1, <2>o, <2>4, <2>5 DEF EndOpen, Holds
<1>2. NoFalseClose
  BY <1>1 DEF NoFalseClose
<1>3. NoMissedClose
  BY <1>1 DEF NoMissedClose
<1> QED BY <1>0, <1>2, <1>3 DEF AnswerRight

-----------------------------------------------------------------------------
\* The two counts an answer of _pipe_is_closed rests on are those of the moment of
\* the answer, however forks, dups and closes of any number of environments are
\* interleaved with the loop on env_runs.
THEOREM AnswersAreSnapshots == Spec => []AnswerIsSnapshot
<1>1. Init => BaseInv
  BY InitBase
<1>2. BaseInv /\ [Next]_vars => BaseInv'
  BY NextBase
<1>3. BaseInv => AnswerIsSnapshot
  <2> SUFFICES ASSUME BaseInv, NEW e \in Env, Answering(e)
               PROVE  /\ loc[e].fd_ref = pageref_fd(fdpage[e][loc[e].fd])
                      /\ loc[e].pipe_ref = pageref_pipe
    BY DEF AnswerIsSnapshot
  <2>1. /\ status[e] = "alive" /\ pc[e] = "again" /\ curenv = e /\ ran[e] = FALSE
    BY DEF BaseInv, OnlyLiveAct, Answering, At, TypeOK
  <2> QED BY <2>1 DEF BaseInv, LiveSound, Snapshot
<1> QED BY <1>1, <1>2, <1>3, PTL DEF Spec

\* When no end is passed on while somebody else holds it, _pipe_is_closed is right
\* both ways, for any number of environments and descriptors.
THEOREM PipeClosedIsRight == ASSUME ~SharedFork PROVE Spec => []AnswerRight
<1>1. Init => BaseInv /\ OwnersApart
  BY InitBase
<1>2. (BaseInv /\ OwnersApart) /\ [Next]_vars => (BaseInv /\ OwnersApart)'
  BY NextBase
<1>3. BaseInv /\ OwnersApart => AnswerRight
  BY AnswersAreRight
<1> QED BY <1>1, <1>2, <1>3, PTL DEF Spec

=============================================================================
