---------------------------- MODULE IpcLibProofs -----------------------------
(***************************************************************************)
(* Theorems about IpcLib, for any finite set of environments, any number of *)
(* messages and every Discipline: user code may send pages nobody asked for *)
(* and pages that cannot be mapped.                                         *)
(***************************************************************************)
EXTENDS IpcLib, FiniteSetTheorems, TLAPS

\* An environment is marked as receiving exactly while it is blocked, and a sender
\* has a target and a message.
MarkedIffBlocked == \A e \in Env : recving[e] = TRUE <=> pc[e] = "blocked"
SendersReady == \A e \in Env : pc[e] = "send" => whom[e] \in Env /\ sends[e] >= 1

\* The three fields of a message agree.
Agree(g) == g.value \in Msg /\ g.from = g.value[1] /\ ("D" \in g.perm <=> g.value[3] = TRUE)

\* A woken receiver's fields are one message, it keeps what it has read of them, and
\* the page is in its place.
FieldsAgree == \A e \in Env : Reading(e) => Agree(fields[e])
ReadSoFar == \A e \in Env :
    /\ pc[e] \in {"perm", "value"} => local[e].from = fields[e].from
    /\ pc[e] = "value" => local[e].perm = fields[e].perm
PageThere == \A e \in Env :
    Reading(e) /\ fields[e].value \notin failed /\ fields[e].value[3] = TRUE
      => mapped[e][dstva[e]] = fields[e].value
Received == /\ got \in [Env -> Seq(Fields)]
            /\ \A e \in Env : \A i \in DOMAIN got[e] : Agree(got[e][i])

WholeInv == /\ TypeOK /\ MarkedIffBlocked /\ SendersReady
            /\ FieldsAgree /\ ReadSoFar /\ PageThere /\ Received

\* A message that is over: every later one of its sender has a higher number.
Past(m) == /\ m[2] <= sends[m[1]]
           /\ pc[m[1]] = "send" => m[2] < sends[m[1]]
AllPast == /\ \A m \in returned \cup failed : Past(m)
           /\ \A e \in Env : \A i \in DOMAIN got[e] : Past(got[e][i].value)
           /\ \A e \in Env : Reading(e) => Past(fields[e].value)

\* No message has been received twice, or is being received again.
OneGot == \A e, f \in Env : \A i \in DOMAIN got[e], j \in DOMAIN got[f] :
    got[e][i].value = got[f][j].value => e = f /\ i = j
NotAgain == \A e, f \in Env : \A i \in DOMAIN got[e] :
    Reading(f) => got[e][i].value # fields[f].value
OneReader == \A e, f \in Env :
    Reading(e) /\ Reading(f) /\ fields[e].value = fields[f].value => e = f

\* What was sent has been received or is being received.
Kept == \A m \in returned :
    \/ \E e \in Env : \E i \in DOMAIN got[e] : got[e][i].value = m
    \/ \E e \in Env : Reading(e) /\ fields[e].value = m

\* Messages of one sender come in order, the one being received last.
InOrder == \A e \in Env : \A i \in DOMAIN got[e] :
    /\ \A j \in DOMAIN got[e] : i < j /\ got[e][i].from = got[e][j].from
         => got[e][i].value[2] < got[e][j].value[2]
    /\ Reading(e) /\ got[e][i].from = fields[e].from
         => got[e][i].value[2] < fields[e].value[2]

OnceInv == AllPast /\ OneGot /\ NotAgain /\ OneReader /\ Kept /\ InOrder

-----------------------------------------------------------------------------
\* The bound on all messages bounds those of one sender.
LEMMA SendsBound ==
    ASSUME TypeOK, NEW e \in Env, Cardinality(Begun) < MaxSends
    PROVE  sends[e] < MaxSends
<1> USE ConstantsAssumption
<1>0. sends[e] \in 0..MaxSends
  BY DEF TypeOK
<1> SUFFICES ASSUME sends[e] = MaxSends PROVE FALSE
  BY <1>0
<1>1. IsFiniteSet(1..MaxSends) /\ Cardinality(1..MaxSends) = MaxSends
  BY FS_Interval
<1>2. PICK f : f = [n \in 1..MaxSends |-> <<e, n>>]
  OBVIOUS
<1>3. f \in Injection(1..MaxSends, Begun)
  <2>1. \A n \in 1..MaxSends : <<e, n>> \in Begun
    BY DEF Begun
  <2> QED BY <1>2, <2>1 DEF Injection, IsInjective
<1>4. IsFiniteSet(Env \X (1..MaxSends))
  BY <1>1, FS_Product
<1>5. Begun \in SUBSET (Env \X (1..MaxSends))
  BY DEF Begun
<1>6. IsFiniteSet(Begun)
  BY <1>4, <1>5, FS_Subset
<1>7. Cardinality(1..MaxSends) <= Cardinality(Begun)
  BY <1>3, <1>6, FS_Injection
<1>8. Cardinality(Begun) \in Nat
  BY <1>6, FS_CardinalityType
<1> QED BY <1>1, <1>7, <1>8

\* The message a sender is about to deliver.
LEMMA CurrentFacts ==
    ASSUME TypeOK, SendersReady, NEW e \in Env, pc[e] = "send"
    PROVE  /\ Current(e) \in Msg
           /\ Current(e)[1] = e /\ Current(e)[2] = sends[e] /\ Current(e)[3] = page[e]
  BY DEF TypeOK, SendersReady, Current, Msg

\* Its target is another environment, and is given fields that agree.
LEMMA WokenFacts ==
    ASSUME WholeInv, NEW e \in Env, NEW t \in Env, pc[e] = "send", recving[t], Woken(t, e)
    PROVE  /\ t # e /\ pc[t] = "blocked"
           /\ fields' \in [Env -> Fields] /\ recving' \in [Env -> BOOLEAN]
           /\ Agree(fields'[t]) /\ fields'[t].value = Current(e) /\ fields'[t].from = e
           /\ \A f \in Env \ {t} : fields'[f] = fields[f] /\ recving'[f] = recving[f]
           /\ recving'[t] = FALSE
<1>0. TypeOK /\ SendersReady /\ MarkedIffBlocked
  BY DEF WholeInv
<1>1. t # e /\ pc[t] = "blocked"
  BY <1>0 DEF MarkedIffBlocked, TypeOK
<1> DEFINE g == [from |-> e, perm |-> {"V"} \cup (IF page[e] THEN {"D"} ELSE {}),
                 value |-> Current(e)]
<1>2. g \in Fields
  BY <1>0, CurrentFacts DEF Fields
<1>3. Agree(g)
  BY <1>0, CurrentFacts DEF Agree, TypeOK
<1>4. fields' = [fields EXCEPT ![t] = g] /\ recving' = [recving EXCEPT ![t] = FALSE]
  BY DEF Woken
<1>5. g.value = Current(e) /\ g.from = e
  OBVIOUS
<1> HIDE DEF g
<1>6. fields'[t] = g
  BY <1>0, <1>4 DEF TypeOK
<1>7. Agree(fields'[t])
  BY <1>3, <1>6 DEF Agree
<1> QED BY <1>0, <1>1, <1>2, <1>4, <1>5, <1>6, <1>7 DEF TypeOK

-----------------------------------------------------------------------------
(* What is received is one message.                                        *)

LEMMA InitWhole == Init => WholeInv
<1> SUFFICES ASSUME Init PROVE WholeInv
  OBVIOUS
<1> USE ConstantsAssumption DEF Init
<1>1. NoFields \in Fields
  BY DEF NoFields, Fields
<1>2. TypeOK
  BY <1>1 DEF TypeOK
<1> QED BY <1>2 DEF WholeInv, MarkedIffBlocked, SendersReady, FieldsAgree, ReadSoFar,
               PageThere, Received, Reading

\* A step of one environment that changes neither its fields nor its page, nor what
\* it has received, and leaves the others alone.
LEMMA OwnStep ==
    ASSUME WholeInv, NEW e \in Env, NEW label,
           pc' = [pc EXCEPT ![e] = label], UNCHANGED <<fields, mapped, got>>,
           \A f \in Env \ {e} : dstva'[f] = dstva[f] /\ local'[f] = local[f],
           failed \subseteq failed',
           label \notin {"from", "perm", "value"}
    PROVE  FieldsAgree' /\ ReadSoFar' /\ PageThere' /\ Received'
  BY DEF WholeInv, TypeOK, FieldsAgree, ReadSoFar, PageThere, Received, Reading, Agree

LEMMA NextWhole ==
    ASSUME WholeInv, [Next]_vars
    PROVE  WholeInv'
<1>0. TypeOK /\ MarkedIffBlocked /\ SendersReady /\ Received
  BY DEF WholeInv
<1>1. ASSUME NEW e \in Env, NEW t \in Env, NEW p \in BOOLEAN, ipc_send(e, t, p)
      PROVE  WholeInv'
  <2>1. sends[e] + 1 \in 0..MaxSends /\ sends'[e] >= 1
    BY <1>0, <1>1, SendsBound, ConstantsAssumption DEF TypeOK, ipc_send
  <2>2. TypeOK' /\ MarkedIffBlocked' /\ SendersReady'
    BY <1>0, <1>1, <2>1 DEF TypeOK, MarkedIffBlocked, SendersReady, ipc_send, Goto
  <2> QED BY <1>1, <2>2, OwnStep DEF ipc_send, Goto, WholeInv
<1>2. ASSUME NEW e \in Env, sys_ipc_try_send(e) PROVE WholeInv'
  <2>0. PICK t \in Env : t = whom[e]
    BY <1>0, <1>2 DEF SendersReady, sys_ipc_try_send
  <2>1. pc[e] = "send" /\ recving[t] /\ Woken(t, e)
    BY <1>2, <2>0 DEF sys_ipc_try_send
  <2>2. /\ pc' = [pc EXCEPT ![e] = "idle", ![t] = "from"]
        /\ mapped' = IF page[e] THEN [mapped EXCEPT ![t][dstva[t]] = Current(e)] ELSE mapped
        /\ returned' = returned \cup {Current(e)}
        /\ UNCHANGED <<dstva, whom, page, local, sends, failed, got>>
    BY <1>2, <2>0 DEF sys_ipc_try_send
  <2>w. /\ t # e /\ pc[t] = "blocked"
        /\ fields' \in [Env -> Fields] /\ recving' \in [Env -> BOOLEAN]
        /\ Agree(fields'[t]) /\ fields'[t].value = Current(e)
        /\ \A f \in Env \ {t} : fields'[f] = fields[f] /\ recving'[f] = recving[f]
        /\ recving'[t] = FALSE
    BY <2>1, WokenFacts, ZenonT(40)
  <2>c. Current(e) \in Msg /\ Current(e)[3] = page[e]
    BY <1>0, <2>1, CurrentFacts
  <2>p. /\ pc'[e] = "idle" /\ pc'[t] = "from" /\ DOMAIN pc' = Env
        /\ \A f \in Env \ {e, t} : pc'[f] = pc[f]
        /\ pc' \in [Env -> {"idle", "send", "blocked", "from", "perm", "value", "gone"}]
    BY <1>0, <2>1, <2>2, <2>w DEF TypeOK
  <2>3. /\ mapped' \in [Env -> [{"zero", "page"} -> Msg \cup {NoMsg}]]
        /\ \A f \in Env \ {t} : mapped'[f] = mapped[f]
        /\ page[e] => mapped'[t][dstva[t]] = Current(e)
    BY <1>0, <2>1, <2>2, CurrentFacts DEF TypeOK
  <2>4. TypeOK' /\ MarkedIffBlocked' /\ SendersReady'
    <3>1. TypeOK'
      BY <1>0, <2>2, <2>3, <2>w, <2>c, <2>p DEF TypeOK
    <3>2. MarkedIffBlocked'
      BY <1>0, <2>1, <2>w, <2>p DEF MarkedIffBlocked
    <3>3. SendersReady'
      BY <1>0, <2>1, <2>2, <2>w, <2>p DEF SendersReady
    <3> QED BY <3>1, <3>2, <3>3
  <2>5. FieldsAgree' /\ ReadSoFar'
    BY <2>2, <2>w, <2>p DEF WholeInv, FieldsAgree, ReadSoFar, Reading, Agree
  <2>6. PageThere'
    BY <1>0, <2>2, <2>3, <2>w, <2>c, <2>p DEF WholeInv, PageThere, Reading
  <2>7. Received'
    BY <1>0, <2>2 DEF Received, Agree
  <2> QED BY <2>4, <2>5, <2>6, <2>7 DEF WholeInv
<1>3. ASSUME NEW e \in Env, sys_ipc_try_send_no_page(e) PROVE WholeInv'
  <2>0. PICK t \in Env : t = whom[e]
    BY <1>0, <1>3 DEF SendersReady, sys_ipc_try_send_no_page
  <2>1. pc[e] = "send" /\ recving[t] /\ Woken(t, e)
    BY <1>3, <2>0 DEF sys_ipc_try_send_no_page
  <2>2. /\ pc' = [pc EXCEPT ![e] = "gone", ![t] = "from"]
        /\ failed' = failed \cup {Current(e)}
        /\ UNCHANGED <<dstva, mapped, whom, page, local, sends, returned, got>>
    BY <1>3, <2>0 DEF sys_ipc_try_send_no_page
  <2>w. /\ t # e /\ pc[t] = "blocked"
        /\ fields' \in [Env -> Fields] /\ recving' \in [Env -> BOOLEAN]
        /\ Agree(fields'[t]) /\ fields'[t].value = Current(e)
        /\ \A f \in Env \ {t} : fields'[f] = fields[f] /\ recving'[f] = recving[f]
        /\ recving'[t] = FALSE
    BY <2>1, WokenFacts, ZenonT(40)
  <2>c. Current(e) \in Msg /\ Current(e)[3] = page[e]
    BY <1>0, <2>1, CurrentFacts
  <2>p. /\ pc'[e] = "gone" /\ pc'[t] = "from" /\ DOMAIN pc' = Env
        /\ \A f \in Env \ {e, t} : pc'[f] = pc[f]
        /\ pc' \in [Env -> {"idle", "send", "blocked", "from", "perm", "value", "gone"}]
    BY <1>0, <2>1, <2>2, <2>w DEF TypeOK
  <2>3. TypeOK' /\ MarkedIffBlocked' /\ SendersReady'
    <3>1. TypeOK'
      BY <1>0, <2>2, <2>w, <2>c, <2>p DEF TypeOK
    <3>2. MarkedIffBlocked'
      BY <1>0, <2>1, <2>w, <2>p DEF MarkedIffBlocked
    <3>3. SendersReady'
      BY <1>0, <2>1, <2>2, <2>w, <2>p DEF SendersReady
    <3> QED BY <3>1, <3>2, <3>3
  <2>4. FieldsAgree' /\ ReadSoFar'
    BY <2>2, <2>w, <2>p DEF WholeInv, FieldsAgree, ReadSoFar, Reading, Agree
  <2>5. PageThere'
    BY <2>2, <2>w, <2>p DEF WholeInv, PageThere, Reading
  <2>6. Received'
    BY <1>0, <2>2 DEF Received, Agree
  <2> QED BY <2>3, <2>4, <2>5, <2>6 DEF WholeInv
<1>4. ASSUME NEW e \in Env, sys_ipc_try_send_bad_env(e) PROVE WholeInv'
  <2>1. TypeOK' /\ MarkedIffBlocked' /\ SendersReady'
    BY <1>0, <1>4, CurrentFacts
    DEF TypeOK, MarkedIffBlocked, SendersReady, sys_ipc_try_send_bad_env, Goto
  <2> QED BY <1>4, <2>1, OwnStep DEF sys_ipc_try_send_bad_env, Goto, WholeInv
<1>5. ASSUME NEW e \in Env, NEW a \in {"zero", "page"}, sys_ipc_recv(e, a) PROVE WholeInv'
  <2>1. NoFields \in Fields
    BY DEF NoFields, Fields
  <2>2. TypeOK' /\ MarkedIffBlocked' /\ SendersReady'
    BY <1>0, <1>5, <2>1 DEF TypeOK, MarkedIffBlocked, SendersReady, sys_ipc_recv, Goto
  <2> QED BY <1>0, <1>5, <2>2, OwnStep DEF sys_ipc_recv, Goto, WholeInv, TypeOK
<1>6. ASSUME NEW e \in Env, read_from(e) PROVE WholeInv'
  <2>0. local[e] \in Fields /\ fields[e] \in Fields
    BY <1>0 DEF TypeOK
  <2>1. /\ local'[e] \in Fields /\ local'[e].from = fields[e].from
        /\ local'[e].perm = local[e].perm /\ local'[e].value = local[e].value
    BY <1>0, <1>6, <2>0 DEF read_from, TypeOK, Fields
  <2>2. TypeOK' /\ MarkedIffBlocked' /\ SendersReady'
    BY <1>0, <1>6, <2>1 DEF TypeOK, MarkedIffBlocked, SendersReady, read_from, Goto
  <2>3. ReadSoFar'
    BY <1>0, <1>6, <2>1 DEF WholeInv, TypeOK, Fields, ReadSoFar, read_from, Goto
  <2>4. FieldsAgree' /\ PageThere' /\ Received'
    BY <1>0, <1>6 DEF WholeInv, TypeOK, FieldsAgree, PageThere, Received, Reading, Agree,
                      read_from, Goto
  <2> QED BY <2>2, <2>3, <2>4 DEF WholeInv
<1>7. ASSUME NEW e \in Env, read_perm(e) PROVE WholeInv'
  <2>0. local[e] \in Fields /\ fields[e] \in Fields
    BY <1>0 DEF TypeOK
  <2>1. /\ local'[e] \in Fields /\ local'[e].perm = fields[e].perm
        /\ local'[e].from = local[e].from /\ local'[e].value = local[e].value
    BY <1>0, <1>7, <2>0 DEF read_perm, TypeOK, Fields
  <2>2. TypeOK' /\ MarkedIffBlocked' /\ SendersReady'
    BY <1>0, <1>7, <2>1 DEF TypeOK, MarkedIffBlocked, SendersReady, read_perm, Goto
  <2>3. ReadSoFar'
    BY <1>0, <1>7, <2>1 DEF WholeInv, TypeOK, Fields, ReadSoFar, read_perm, Goto
  <2>4. FieldsAgree' /\ PageThere' /\ Received'
    BY <1>0, <1>7 DEF WholeInv, TypeOK, FieldsAgree, PageThere, Received, Reading, Agree,
                      read_perm, Goto
  <2> QED BY <2>2, <2>3, <2>4 DEF WholeInv
<1>8. ASSUME NEW e \in Env, read_value(e) PROVE WholeInv'
  <2>0. local[e] \in Fields /\ fields[e] \in Fields
    BY <1>0 DEF TypeOK
  <2>1. local'[e] = fields[e] /\ local'[e] \in Fields
    <3>1. /\ local'[e] \in Fields /\ local'[e].value = fields[e].value
          /\ local'[e].from = local[e].from /\ local'[e].perm = local[e].perm
      BY <1>0, <1>8, <2>0 DEF read_value, TypeOK, Fields
    <3>2. local[e].from = fields[e].from /\ local[e].perm = fields[e].perm
      BY <1>8 DEF read_value, WholeInv, ReadSoFar
    <3> QED BY <2>0, <3>1, <3>2 DEF Fields
  <2>2. TypeOK' /\ MarkedIffBlocked' /\ SendersReady'
    BY <1>0, <1>8, <2>1 DEF TypeOK, MarkedIffBlocked, SendersReady, read_value, Goto
  <2>3. FieldsAgree' /\ ReadSoFar' /\ PageThere'
    BY <1>0, <1>8 DEF WholeInv, TypeOK, FieldsAgree, ReadSoFar, PageThere, Reading, Agree,
                      read_value, Goto
  <2>4. Agree(fields[e])
    BY <1>8 DEF WholeInv, FieldsAgree, Reading, read_value
  <2>5. got' = [got EXCEPT ![e] = Append(@, fields[e])]
    BY <1>8, <2>1 DEF read_value
  <2>6. Received'
    BY <1>0, <2>4, <2>5 DEF Received, Agree, TypeOK
  <2> QED BY <2>2, <2>3, <2>6 DEF WholeInv
<1>9. ASSUME NEW e \in Env, exit(e) PROVE WholeInv'
  <2>1. TypeOK' /\ MarkedIffBlocked' /\ SendersReady'
    BY <1>0, <1>9 DEF TypeOK, MarkedIffBlocked, SendersReady, exit, Goto
  <2> QED BY <1>9, <2>1, OwnStep DEF exit, Goto, WholeInv
<1>10. CASE UNCHANGED vars
  BY <1>10 DEF vars, WholeInv, TypeOK, MarkedIffBlocked, SendersReady, FieldsAgree,
               ReadSoFar, PageThere, Received, Reading, Agree
<1> QED BY <1>1, <1>2, <1>3, <1>4, <1>5, <1>6, <1>7, <1>8, <1>9, <1>10 DEF Next, Try

\* What ipc_recv puts together in three reads is one message, with the page that was
\* sent with it (ipc.c:31-38), whoever sends to it in between, for any number of
\* environments and messages and whatever user code sends.
THEOREM MessagesWhole == Spec => []ReadsWhole
<1>1. WholeInv => ReadsWhole
  <2> SUFFICES ASSUME WholeInv PROVE WholeMessage
    BY DEF WholeInv, ReadsWhole
  <2> QED BY DEF WholeInv, TypeOK, Received, PageThere, Agree, WholeMessage, Msg
<1> QED BY <1>1, InitWhole, NextWhole, PTL DEF Spec

-----------------------------------------------------------------------------
(* Each message is delivered once, in order.                               *)

\* Every message the history or a receiver knows is one.
LEMMA KnownAreMessages ==
    ASSUME WholeInv
    PROVE  /\ returned \subseteq Msg /\ failed \subseteq Msg
           /\ \A e \in Env : \A i \in DOMAIN got[e] : got[e][i].value \in Msg
           /\ \A e \in Env : Reading(e) => fields[e].value \in Msg
  BY DEF WholeInv, TypeOK, Received, FieldsAgree, Agree

\* A step in which nothing is delivered and nothing is received.
LEMMA QuietStep ==
    ASSUME WholeInv, OnceInv, UNCHANGED <<fields, got, returned>>,
           \A e \in Env : Reading(e)' <=> Reading(e),
           \A m \in Msg : Past(m) => Past(m)',
           \A m \in failed' \ failed : Past(m)'
    PROVE  OnceInv'
<1>1. AllPast'
  BY KnownAreMessages DEF OnceInv, AllPast
<1>2. OneGot' /\ NotAgain' /\ OneReader'
  BY DEF OnceInv, OneGot, NotAgain, OneReader
<1>3. Kept' /\ InOrder'
  BY DEF OnceInv, Kept, InOrder
<1> QED BY <1>1, <1>2, <1>3 DEF OnceInv

\* A step in which the message of e wakes t.
LEMMA DeliveryStep ==
    ASSUME WholeInv, OnceInv, NEW e \in Env, NEW t \in Env, pc[e] = "send", recving[t],
           Woken(t, e), NEW label \in {"idle", "gone"},
           pc' = [pc EXCEPT ![e] = label, ![t] = "from"], UNCHANGED <<got, sends>>,
           returned' \subseteq returned \cup {Current(e)},
           failed' \subseteq failed \cup {Current(e)}
    PROVE  OnceInv'
<1>0. TypeOK /\ SendersReady /\ Received
  BY DEF WholeInv
<1>c. PICK c \in Msg : c = Current(e)
  BY <1>0, CurrentFacts
<1>1. /\ t # e /\ pc[t] = "blocked"
      /\ fields'[t].value = c /\ fields'[t].from = e
      /\ \A f \in Env \ {t} : fields'[f] = fields[f]
  BY <1>c, WokenFacts, ZenonT(40)
<1>2. c[1] = e /\ c[2] = sends[e]
  BY <1>0, <1>c, CurrentFacts
<1>3. /\ pc'[e] = label /\ pc'[t] = "from"
      /\ \A f \in Env \ {e, t} : pc'[f] = pc[f]
  BY <1>0, <1>1 DEF TypeOK
<1>4. /\ Reading(t)' /\ ~Reading(t) /\ ~Reading(e)' /\ ~Reading(e)
      /\ \A f \in Env \ {t} : Reading(f)' <=> Reading(f)
  BY <1>1, <1>3 DEF Reading
<1>5. \A m \in Msg : Past(m) => Past(m)'
  BY <1>0, <1>3 DEF Past, Msg, TypeOK
<1>6. Past(c)' /\ ~Past(c)
  BY <1>0, <1>2, <1>3 DEF Past, TypeOK
<1>7. AllPast'
  BY <1>c, <1>1, <1>4, <1>5, <1>6, KnownAreMessages DEF OnceInv, AllPast
<1>8. \A f \in Env : \A i \in DOMAIN got[f] : got[f][i].value # c
  BY <1>6 DEF OnceInv, AllPast
<1>9. \A f \in Env : Reading(f) => fields[f].value # c
  BY <1>6 DEF OnceInv, AllPast
<1>10. OneGot' /\ NotAgain' /\ OneReader'
  BY <1>1, <1>4, <1>8, <1>9 DEF OnceInv, OneGot, NotAgain, OneReader
<1>11. Kept'
  BY <1>c, <1>1, <1>4 DEF OnceInv, Kept
<1>12. \A i \in DOMAIN got[t] : got[t][i].from = e => got[t][i].value[2] < c[2]
  BY <1>0, <1>2 DEF OnceInv, AllPast, Past, Received, Agree
<1>13. InOrder'
  BY <1>1, <1>4, <1>12 DEF OnceInv, InOrder
<1> QED BY <1>7, <1>10, <1>11, <1>13 DEF OnceInv

\* The step in which ipc_recv returns.
LEMMA ReceiptStep ==
    ASSUME WholeInv, OnceInv, NEW e \in Env, pc[e] = "value",
           pc' = [pc EXCEPT ![e] = "idle"], got' = [got EXCEPT ![e] = Append(@, fields[e])],
           UNCHANGED <<fields, sends, returned, failed>>
    PROVE  OnceInv'
<1> DEFINE n == Len(got[e]) + 1
<1>0. TypeOK /\ Received /\ got[e] \in Seq(Fields) /\ fields[e] \in Fields /\ Reading(e)
  BY DEF WholeInv, Received, TypeOK, Reading
<1>1. /\ n \in Nat \ {0} /\ DOMAIN got[e] = 1..(n - 1) /\ DOMAIN got'[e] = 1..n
      /\ got'[e][n] = fields[e]
      /\ \A i \in 1..(n - 1) : got'[e][i] = got[e][i]
      /\ \A f \in Env \ {e} : got'[f] = got[f]
  BY <1>0 DEF Received
<1>2. ~Reading(e)' /\ \A f \in Env \ {e} : Reading(f)' <=> Reading(f)
  BY <1>0 DEF TypeOK, Reading
<1>3. \A m \in Msg : Past(m) => Past(m)'
  BY <1>0 DEF Past, Msg, TypeOK
<1> HIDE DEF n
<1>4. \A i \in 1..n : i \in 1..(n - 1) \/ i = n
  BY <1>1
<1>5. AllPast'
  <2>1. \A m \in returned' \cup failed' : Past(m)'
    BY <1>3, KnownAreMessages DEF OnceInv, AllPast
  <2>2. \A i \in DOMAIN got'[e] : Past(got[e][i].value)'
    BY <1>0, <1>1, <1>3, <1>4, KnownAreMessages DEF OnceInv, AllPast
  <2>3. \A f \in Env \ {e} : \A i \in DOMAIN got'[f] : Past(got[f][i].value)'
    BY <1>1, <1>3, KnownAreMessages DEF OnceInv, AllPast
  <2>4. \A f \in Env : Reading(f)' => Past(fields[f].value)'
    BY <1>2, <1>3, KnownAreMessages DEF OnceInv, AllPast
  <2> QED BY <2>1, <2>2, <2>3, <2>4 DEF AllPast
<1>6. OneGot'
  <2> SUFFICES ASSUME NEW f \in Env, NEW g \in Env, NEW i \in DOMAIN got'[f],
                      NEW j \in DOMAIN got'[g], got'[f][i].value = got'[g][j].value
               PROVE  f = g /\ i = j
    BY DEF OneGot
  <2>1. CASE f = e /\ i = n
    BY <1>0, <1>1, <1>4, <2>1 DEF OnceInv, NotAgain
  <2>2. CASE g = e /\ j = n
    BY <1>0, <1>1, <1>4, <2>2 DEF OnceInv, NotAgain
  <2>3. CASE ~(f = e /\ i = n) /\ ~(g = e /\ j = n)
    BY <1>1, <1>4, <2>3 DEF OnceInv, OneGot
  <2> QED BY <2>1, <2>2, <2>3
<1>7. NotAgain'
  <2> SUFFICES ASSUME NEW f \in Env, NEW g \in Env, NEW i \in DOMAIN got'[f], Reading(g)'
               PROVE  got'[f][i].value # fields[g].value
    BY DEF NotAgain
  <2>1. CASE f = e /\ i = n
    BY <1>0, <1>1, <1>2, <2>1 DEF OnceInv, OneReader
  <2>2. CASE ~(f = e /\ i = n)
    BY <1>1, <1>2, <1>4, <2>2 DEF OnceInv, NotAgain
  <2> QED BY <2>1, <2>2
<1>8. OneReader'
  BY <1>2 DEF OnceInv, OneReader
<1>9. Kept'
  <2> SUFFICES ASSUME NEW m \in returned
               PROVE  \/ \E f \in Env : \E i \in DOMAIN got'[f] : got'[f][i].value = m
                      \/ \E f \in Env : Reading(f)' /\ fields[f].value = m
    BY DEF Kept
  <2>1. CASE \E f \in Env : \E i \in DOMAIN got[f] : got[f][i].value = m
    <3>1. PICK f \in Env : \E i \in DOMAIN got[f] : got[f][i].value = m
      BY <2>1
    <3>2. PICK i \in DOMAIN got[f] : got[f][i].value = m
      BY <3>1
    <3>3. i \in DOMAIN got'[f] /\ got'[f][i] = got[f][i]
      BY <1>1
    <3> QED BY <3>2, <3>3
  <2>2. CASE \E f \in Env : Reading(f) /\ fields[f].value = m
    <3>1. n \in DOMAIN got'[e]
      BY <1>1
    <3> QED BY <1>1, <1>2, <2>2, <3>1
  <2> QED BY <2>1, <2>2 DEF OnceInv, Kept
<1>10. InOrder'
  <2>1. ASSUME NEW i \in 1..n, NEW j \in 1..n, i < j, got'[e][i].from = got'[e][j].from
        PROVE  got'[e][i].value[2] < got'[e][j].value[2]
    <3>1. CASE j = n
      BY <1>0, <1>1, <2>1, <3>1 DEF OnceInv, InOrder
    <3>2. CASE j # n
      BY <1>1, <2>1, <3>2 DEF OnceInv, InOrder
    <3> QED BY <3>1, <3>2
  <2>2. \A f \in Env \ {e} : \A i \in DOMAIN got'[f] :
           /\ \A j \in DOMAIN got'[f] : i < j /\ got'[f][i].from = got'[f][j].from
                => got'[f][i].value[2] < got'[f][j].value[2]
           /\ Reading(f)' /\ got'[f][i].from = fields[f].from
                => got'[f][i].value[2] < fields[f].value[2]
    BY <1>1, <1>2 DEF OnceInv, InOrder
  <2> QED BY <1>1, <1>2, <2>1, <2>2 DEF InOrder
<1> QED BY <1>5, <1>6, <1>7, <1>8, <1>9, <1>10 DEF OnceInv

LEMMA NextOnce ==
    ASSUME WholeInv, OnceInv, [Next]_vars
    PROVE  OnceInv'
<1>0. TypeOK /\ SendersReady
  BY DEF WholeInv
<1>1. ASSUME NEW e \in Env, NEW t \in Env, NEW p \in BOOLEAN, ipc_send(e, t, p)
      PROVE  OnceInv'
  <2>1. \A f \in Env : Reading(f)' <=> Reading(f)
    BY <1>0, <1>1 DEF TypeOK, Reading, ipc_send, Goto
  <2>2. \A m \in Msg : Past(m) => Past(m)'
    BY <1>0, <1>1, ConstantsAssumption DEF TypeOK, Past, Msg, ipc_send, Goto
  <2> QED BY <1>1, <2>1, <2>2, QuietStep DEF ipc_send
<1>2. ASSUME NEW e \in Env, sys_ipc_try_send(e) PROVE OnceInv'
  <2>0. PICK t \in Env : t = whom[e]
    BY <1>0, <1>2 DEF SendersReady, sys_ipc_try_send
  <2> QED BY <1>2, <2>0, DeliveryStep DEF sys_ipc_try_send
<1>3. ASSUME NEW e \in Env, sys_ipc_try_send_no_page(e) PROVE OnceInv'
  <2>0. PICK t \in Env : t = whom[e]
    BY <1>0, <1>3 DEF SendersReady, sys_ipc_try_send_no_page
  <2> QED BY <1>3, <2>0, DeliveryStep DEF sys_ipc_try_send_no_page
<1>4. ASSUME NEW e \in Env, sys_ipc_try_send_bad_env(e) PROVE OnceInv'
  <2>1. \A f \in Env : Reading(f)' <=> Reading(f)
    BY <1>0, <1>4 DEF TypeOK, Reading, sys_ipc_try_send_bad_env, Goto
  <2>2. \A m \in Msg : Past(m) => Past(m)'
    BY <1>0, <1>4 DEF TypeOK, Past, Msg, sys_ipc_try_send_bad_env, Goto
  <2>3. PICK c \in Msg : c = Current(e) /\ c[1] = e /\ c[2] = sends[e]
    BY <1>0, <1>4, CurrentFacts DEF sys_ipc_try_send_bad_env
  <2>4. Past(c)'
    BY <1>0, <1>4, <2>3 DEF TypeOK, Past, sys_ipc_try_send_bad_env, Goto
  <2> QED BY <1>4, <2>1, <2>2, <2>3, <2>4, QuietStep DEF sys_ipc_try_send_bad_env
<1>5. ASSUME NEW e \in Env, NEW a \in {"zero", "page"}, sys_ipc_recv(e, a) PROVE OnceInv'
  <2>1. \A f \in Env : Reading(f)' <=> Reading(f)
    BY <1>0, <1>5 DEF TypeOK, Reading, sys_ipc_recv, Goto
  <2>2. \A m \in Msg : Past(m) => Past(m)'
    BY <1>0, <1>5 DEF TypeOK, Past, Msg, sys_ipc_recv, Goto
  <2> QED BY <1>5, <2>1, <2>2, QuietStep DEF sys_ipc_recv
<1>6. ASSUME NEW e \in Env, read_from(e) \/ read_perm(e) \/ exit(e) PROVE OnceInv'
  <2>1. \A f \in Env : Reading(f)' <=> Reading(f)
    BY <1>0, <1>6 DEF TypeOK, Reading, read_from, read_perm, exit, Goto
  <2>2. \A m \in Msg : Past(m) => Past(m)'
    BY <1>0, <1>6 DEF TypeOK, Past, Msg, read_from, read_perm, exit, Goto
  <2> QED BY <1>6, <2>1, <2>2, QuietStep DEF read_from, read_perm, exit
<1>7. ASSUME NEW e \in Env, read_value(e) PROVE OnceInv'
  <2>1. local'[e] = fields[e]
    <3>1. local[e] \in Fields /\ fields[e] \in Fields
      BY <1>0 DEF TypeOK
    <3>2. /\ local'[e] \in Fields /\ local'[e].value = fields[e].value
          /\ local'[e].from = local[e].from /\ local'[e].perm = local[e].perm
      BY <1>0, <1>7, <3>1 DEF read_value, TypeOK, Fields
    <3>3. local[e].from = fields[e].from /\ local[e].perm = fields[e].perm
      BY <1>7 DEF read_value, WholeInv, ReadSoFar
    <3> QED BY <3>1, <3>2, <3>3 DEF Fields
  <2> QED BY <1>7, <2>1, ReceiptStep DEF read_value, Goto
<1>8. CASE UNCHANGED vars
  <2>1. \A f \in Env : Reading(f)' <=> Reading(f)
    BY <1>8 DEF vars, Reading
  <2>2. \A m \in Msg : Past(m) => Past(m)'
    BY <1>8 DEF vars, Past
  <2> QED BY <1>8, <2>1, <2>2, QuietStep DEF vars
<1> QED BY <1>1, <1>2, <1>3, <1>4, <1>5, <1>6, <1>7, <1>8 DEF Next, Try

\* From the invariant: the places where a message has been delivered.
LEMMA InvOnce == WholeInv /\ OnceInv => DeliveredOnce
<1> SUFFICES ASSUME WholeInv, OnceInv PROVE DeliveredOnce
  OBVIOUS
<1>1. ASSUME NEW m \in returned PROVE Cardinality(Deliveries(m)) = 1
  <2> DEFINE At(f) == {f} \X {j \in DOMAIN got[f] : got[f][j].value = m}
             Over == UNION {At(f) : f \in Env}
             Now == {<<f, 0>> : f \in {r \in Env : Reading(r) /\ fields[r].value = m}}
  <2>0. Deliveries(m) = Over \cup Now
    BY DEF Deliveries
  <2>1. CASE \E e \in Env : \E i \in DOMAIN got[e] : got[e][i].value = m
    <3>1. PICK e \in Env : \E i \in DOMAIN got[e] : got[e][i].value = m
      BY <2>1
    <3>2. PICK i \in DOMAIN got[e] : got[e][i].value = m
      BY <3>1
    <3>3. \A f \in Env : \A j \in DOMAIN got[f] : got[f][j].value = m => f = e /\ j = i
      BY <3>2 DEF OnceInv, OneGot
    <3>4. \A f \in Env : ~(Reading(f) /\ fields[f].value = m)
      BY <3>2 DEF OnceInv, NotAgain
    <3>5. Now = {}
      BY <3>4
    <3>6. At(e) = {<<e, i>>}
      BY <3>2, <3>3
    <3>7. \A f \in Env \ {e} : At(f) = {}
      BY <3>3
    <3>8. Over = {<<e, i>>}
      <4> HIDE DEF At
      <4> QED BY <3>6, <3>7
    <3> QED BY <2>0, <3>5, <3>8, FS_Singleton
  <2>2. CASE ~\E e \in Env : \E i \in DOMAIN got[e] : got[e][i].value = m
    <3>1. PICK e \in Env : Reading(e) /\ fields[e].value = m
      BY <2>2 DEF OnceInv, Kept
    <3>2. \A f \in Env : Reading(f) /\ fields[f].value = m => f = e
      BY <3>1 DEF OnceInv, OneReader
    <3>3. Now = {<<e, 0>>}
      BY <3>1, <3>2
    <3>4. \A f \in Env : At(f) = {}
      BY <2>2
    <3>5. Over = {}
      <4> HIDE DEF At
      <4> QED BY <3>4
    <3> QED BY <2>0, <3>3, <3>5, FS_Singleton
  <2> QED BY <2>1, <2>2
<1> QED BY <1>1 DEF OnceInv, InOrder, DeliveredOnce

\* A message whose ipc_send has returned is delivered once (ipc.c:12-18), and the
\* messages from one environment to another arrive in the order they were sent, for
\* any number of environments and messages and whatever user code sends.
THEOREM MessagesOnce == Spec => []DeliveredOnce
<1>1. Init => OnceInv
  BY DEF Init, OnceInv, AllPast, OneGot, NotAgain, OneReader, Kept, InOrder, Reading
<1>2. WholeInv /\ OnceInv /\ [Next]_vars => OnceInv'
  BY NextOnce
<1> QED BY <1>1, <1>2, InvOnce, InitWhole, NextWhole, PTL DEF Spec

=============================================================================
