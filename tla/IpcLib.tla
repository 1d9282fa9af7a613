----------------------------- MODULE IpcLib -----------------------------
(***************************************************************************)
(* Messages between environments: user/lib/ipc.c on top of sys_ipc_recv    *)
(* and sys_ipc_try_send.  ipc_send tries again and again until its target  *)
(* waits; ipc_recv blocks, and once woken reads sender, permission and     *)
(* value one after the other from its own struct Env, while other senders  *)
(* try.  EnvSched has the same calls as scheduling events; here is what    *)
(* they carry.                                                             *)
(*                                                                         *)
(* A message is named by its sender, a number and whether it has a page    *)
(* with it, so that its value tells which it is.  The page has its name.   *)
(***************************************************************************)
EXTENDS Naturals, FiniteSets, Sequences

CONSTANTS
  Env,         \* the environments
  MaxSends,    \* bound on the messages they send in all
  Discipline   \* what user code is assumed to do, see AllRules

\* "mapped": the page to be sent is mapped, and there is memory for the page
\* table it needs; "asked": no page is sent to one who has given no address
\* for it, and no address is left out by one to whom a page is being sent
AllRules == {"mapped", "asked"}
Ask(rule, holds) == rule \in Discipline => holds

ASSUME ConstantsAssumption == /\ IsFiniteSet(Env) /\ MaxSends \in Nat
                              /\ Discipline \subseteq AllRules

NoEnv == <<>>
NoMsg == <<>>
Msg == Env \X (1..MaxSends) \X BOOLEAN

VARIABLES
  recving,     \* env_ipc_recving
  dstva,       \* env_ipc_dstva: "zero" or "page"
  fields,      \* env_ipc_from, env_ipc_perm and env_ipc_value
  mapped,      \* the page at address 0 and at the page given to ipc_recv
  pc,          \* where each environment is in the library
  whom,        \* the target of its ipc_send
  page,        \* does its message have a page with it?
  local,       \* what its ipc_recv has read so far
  sends,       \* messages it has begun to send; the last one is under way
  returned,    \* history: messages whose ipc_send has returned
  failed,      \* history: messages whose ipc_send has panicked
  got          \* history: what each ipc_recv has returned

vars == <<recving, dstva, fields, mapped, pc, whom, page, local, sends, returned, failed, got>>

Fields == [from : Env \cup {NoEnv}, perm : SUBSET {"V", "D"}, value : Msg \cup {NoMsg}]
NoFields == [from |-> NoEnv, perm |-> {}, value |-> NoMsg]

TypeOK ==
  /\ recving \in [Env -> BOOLEAN] /\ dstva \in [Env -> {"zero", "page"}]
  /\ fields \in [Env -> Fields] /\ local \in [Env -> Fields]
  /\ mapped \in [Env -> [{"zero", "page"} -> Msg \cup {NoMsg}]]
  /\ pc \in [Env -> {"idle", "send", "blocked", "from", "perm", "value", "gone"}]
  /\ whom \in [Env -> Env \cup {NoEnv}] /\ page \in [Env -> BOOLEAN]
  /\ sends \in [Env -> 0..MaxSends]
  /\ returned \subseteq Msg /\ failed \subseteq Msg

Init ==
  /\ recving = [e \in Env |-> FALSE] /\ dstva = [e \in Env |-> "zero"]
  /\ fields = [e \in Env |-> NoFields] /\ local = [e \in Env |-> NoFields]
  /\ mapped = [e \in Env |-> [a \in {"zero", "page"} |-> NoMsg]]
  /\ pc = [e \in Env |-> "idle"]
  /\ whom = [e \in Env |-> NoEnv] /\ page = [e \in Env |-> FALSE]
  /\ sends = [e \in Env |-> 0]
  /\ returned = {} /\ failed = {} /\ got = [e \in Env |-> <<>>]

Goto(e, label) == pc' = [pc EXCEPT ![e] = label]
Current(e) == <<e, sends[e], page[e]>>

\* The messages begun so far, by sender and number.
Begun == {m \in Env \X (1..MaxSends) : m[2] <= sends[m[1]]}

ipc_send(e, t, p) ==
  /\ pc[e] = "idle" /\ Cardinality(Begun) < MaxSends
  /\ Ask("asked", p /\ recving[t] => dstva[t] = "page")
  /\ Goto(e, "send")
  /\ sends' = [sends EXCEPT ![e] = @ + 1]
  /\ whom' = [whom EXCEPT ![e] = t] /\ page' = [page EXCEPT ![e] = p]
  /\ UNCHANGED <<recving, dstva, fields, mapped, local, returned, failed, got>>

\* The target's fields are set and it is made runnable (Steps 4 and 5).
Woken(t, e) ==
  /\ fields' = [fields EXCEPT ![t] =
       [from |-> e, perm |-> {"V"} \cup (IF page[e] THEN {"D"} ELSE {}),
        value |-> Current(e)]]
  /\ recving' = [recving EXCEPT ![t] = FALSE]

\* Faulty variant: the target need not wait.
sys_ipc_try_send_unasked(e) ==
  LET t == whom[e] IN
  /\ pc[e] = "send" /\ pc[t] \notin {"gone", "idle", "send"}
  /\ Woken(t, e)
  /\ pc' = [pc EXCEPT ![e] = "idle", ![t] = IF @ = "blocked" THEN "from" ELSE @]
  /\ mapped' = IF page[e] THEN [mapped EXCEPT ![t][dstva[t]] = Current(e)] ELSE mapped
  /\ returned' = returned \cup {Current(e)}
  /\ UNCHANGED <<dstva, whom, page, local, sends, failed, got>>

\* sys_ipc_try_send with a target that waits, and ipc_send's return.  With
\* one that does not wait, ipc_send yields and tries again: nothing changes.
sys_ipc_try_send(e) ==
  LET t == whom[e] IN
  /\ pc[e] = "send" /\ pc[t] # "gone" /\ recving[t]
  /\ Woken(t, e)
  /\ pc' = [pc EXCEPT ![e] = "idle", ![t] = "from"]
  /\ mapped' = IF page[e] THEN [mapped EXCEPT ![t][dstva[t]] = Current(e)] ELSE mapped
  /\ returned' = returned \cup {Current(e)}
  /\ UNCHANGED <<dstva, whom, page, local, sends, failed, got>>

\* The page is not mapped at the sender, or page_insert fails: the error
\* comes after the target has been woken, and ipc_send panics (Step 6).
sys_ipc_try_send_no_page(e) ==
  LET t == whom[e] IN
  /\ pc[e] = "send" /\ pc[t] # "gone" /\ recving[t] /\ page[e]
  /\ Ask("mapped", FALSE)
  /\ Woken(t, e)
  /\ pc' = [pc EXCEPT ![e] = "gone", ![t] = "from"]
  /\ failed' = failed \cup {Current(e)}
  /\ UNCHANGED <<dstva, mapped, whom, page, local, sends, returned, got>>

\* envid2env refuses the id of an environment that is gone: a panic too.
sys_ipc_try_send_bad_env(e) ==
  /\ pc[e] = "send" /\ pc[whom[e]] = "gone"
  /\ Goto(e, "gone")
  /\ failed' = failed \cup {Current(e)}
  /\ UNCHANGED <<recving, dstva, fields, mapped, whom, page, local, sends, returned, got>>

\* Faulty variant: blocks without marking itself as receiving.
sys_ipc_recv_unmarked(e, a) ==
  /\ pc[e] = "idle"
  /\ dstva' = [dstva EXCEPT ![e] = a]
  /\ Goto(e, "blocked")
  /\ local' = [local EXCEPT ![e] = NoFields]
  /\ UNCHANGED <<recving, fields, mapped, whom, page, sends, returned, failed, got>>

sys_ipc_recv(e, a) ==
  /\ pc[e] = "idle"
  /\ Ask("asked", a = "zero" =>
       \A s \in Env : ~(pc[s] = "send" /\ whom[s] = e /\ page[s]))
  /\ recving' = [recving EXCEPT ![e] = TRUE]
  /\ dstva' = [dstva EXCEPT ![e] = a]
  /\ Goto(e, "blocked")
  /\ local' = [local EXCEPT ![e] = NoFields]
  /\ UNCHANGED <<fields, mapped, whom, page, sends, returned, failed, got>>

read_from(e) ==
  /\ pc[e] = "from"
  /\ local' = [local EXCEPT ![e].from = fields[e].from]
  /\ Goto(e, "perm")
  /\ UNCHANGED <<recving, dstva, fields, mapped, whom, page, sends, returned, failed, got>>

read_perm(e) ==
  /\ pc[e] = "perm"
  /\ local' = [local EXCEPT ![e].perm = fields[e].perm]
  /\ Goto(e, "value")
  /\ UNCHANGED <<recving, dstva, fields, mapped, whom, page, sends, returned, failed, got>>

read_value(e) ==
  /\ pc[e] = "value"
  /\ local' = [local EXCEPT ![e].value = fields[e].value]
  /\ got' = [got EXCEPT ![e] = Append(@, local'[e])]
  /\ Goto(e, "idle")
  /\ UNCHANGED <<recving, dstva, fields, mapped, whom, page, sends, returned, failed>>

exit(e) ==
  /\ pc[e] = "idle"
  /\ Goto(e, "gone")
  /\ UNCHANGED <<recving, dstva, fields, mapped, whom, page, local, sends, returned, failed, got>>

Try(e) == sys_ipc_try_send(e) \/ sys_ipc_try_send_no_page(e) \/ sys_ipc_try_send_bad_env(e)

Next ==
  \/ \E e, t \in Env, p \in BOOLEAN : e # t /\ ipc_send(e, t, p)
  \/ \E e \in Env : Try(e)
  \/ \E e \in Env, a \in {"zero", "page"} : sys_ipc_recv(e, a)
  \/ \E e \in Env : read_from(e) \/ read_perm(e) \/ read_value(e) \/ exit(e)

Spec == Init /\ [][Next]_vars

\* The scheduler gives every runnable environment its turn: a sender's loop
\* goes on.  Nobody is assumed to make another call.
FairSpec == Spec /\ \A e \in Env : WF_vars(Try(e))

-----------------------------------------------------------------------------
Reading(e) == pc[e] \in {"from", "perm", "value"}

\* What ipc_recv puts together in three reads (ipc.c:31-38) is one message:
\* its sender, its permission, its value, and until the call returns the
\* page that was sent with it is the one at the address given.
WholeMessage ==
  \A e \in Env :
    /\ \A i \in DOMAIN got[e] :
         LET g == got[e][i] IN g.from = g.value[1] /\ ("D" \in g.perm <=> g.value[3])
    /\ Reading(e) /\ fields[e].value \notin failed /\ fields[e].value[3]
         => mapped[e][dstva[e]] = fields[e].value

Deliveries(m) == (UNION {{e} \X {i \in DOMAIN got[e] : got[e][i].value = m} : e \in Env})
                   \cup {<<e, 0>> : e \in {r \in Env : Reading(r) /\ fields[r].value = m}}

\* A message whose ipc_send has returned (ipc.c:12-18) is delivered once: an
\* ipc_recv has returned it, or is about to; and the messages one environment
\* has sent to another arrive in the order they were sent.
DeliveredOnce ==
  /\ \A m \in returned : Cardinality(Deliveries(m)) = 1
  /\ \A e \in Env : \A i, j \in DOMAIN got[e] :
       i < j /\ got[e][i].from = got[e][j].from
         => got[e][i].value[2] < got[e][j].value[2]

\* An ipc_send that panics has not delivered its message: the target is
\* changed only on success (syscall_all.c:391).
FailedNotDelivered == \A m \in failed : Deliveries(m) = {}

\* The permission tells whether a page came with the message: the file
\* server's test for "All requests must contain an argument page"
\* (serv.c:225-226) relies on it.
PermTellsPage ==
  \A e \in Env : \A i \in DOMAIN got[e] : "V" \in got[e][i].perm => got[e][i].value[3]

\* Nothing is mapped at address 0 by a message to one who has asked for no
\* page (syscall_all.c:355).
NoPageUnasked == \A e \in Env : mapped[e]["zero"] = NoMsg

\* A receiver that waits while somebody tries to send to it is woken: the
\* loop of ipc_send ends.
ReceiverMet ==
  \A r \in Env :
    (pc[r] = "blocked" /\ \E s \in Env : pc[s] = "send" /\ whom[s] = r) ~> pc[r] # "blocked"

\* What ipc_recv puts together from env_ipc_from, env_ipc_perm and env_ipc_value is
\* one message (ipc.c:31-38).
ReadsWhole == TypeOK /\ WholeMessage

=============================================================================
