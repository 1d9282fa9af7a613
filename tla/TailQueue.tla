------------------------------ MODULE TailQueue ------------------------------
(***************************************************************************)
(* The doubly linked tail queue of include/queue.h, at the level of its     *)
(* pointers.  The kernel keeps env_sched_list in one, and several callers   *)
(* remove an element whose links are stale, so the model keeps the links    *)
(* themselves and not the sequence they are meant to stand for.             *)
(*                                                                         *)
(* A queue is a record: tqh_first is an element or NULL; tqe_next[e] is an  *)
(* element or NULL; tqh_last and tqe_prev[e] are addresses of a "next"      *)
(* field, written HEAD for &head->tqh_first and e for &e->tqe_next, or NULL *)
(* where the field has never been written (the envs array starts zeroed).   *)
(***************************************************************************)
EXTENDS Integers, FiniteSets

CONSTANTS Elem,   \* the elements that can be linked (struct Env)
          NULL,   \* the null pointer
          HEAD    \* the address &head->tqh_first

\* What the four pointer fields of a queue and its elements may hold.
TailqType == [tqh_first : Elem \cup {NULL},
              tqh_last  : Elem \cup {NULL, HEAD},
              tqe_next  : [Elem -> Elem \cup {NULL}],
              tqe_prev  : [Elem -> Elem \cup {NULL, HEAD}]]

\* TAILQ_INIT on a zeroed array of elements.
TAILQ_INIT == [tqh_first |-> NULL, tqh_last |-> HEAD,
               tqe_next |-> [e \in Elem |-> NULL],
               tqe_prev |-> [e \in Elem |-> NULL]]

TAILQ_FIRST(q) == q.tqh_first

TAILQ_EMPTY(q) == q.tqh_first = NULL

\* *addr = v, where addr is the address of a "next" field.
Store(q, addr, v) ==
    IF addr = HEAD THEN [q EXCEPT !.tqh_first = v]
                   ELSE [q EXCEPT !.tqe_next[addr] = v]

TAILQ_INSERT_HEAD(q, e) ==
    LET linked == IF q.tqh_first # NULL
                    THEN [q EXCEPT !.tqe_prev[q.tqh_first] = e]
                    ELSE [q EXCEPT !.tqh_last = e]
    IN  [linked EXCEPT !.tqe_next[e] = q.tqh_first,
                       !.tqh_first = e,
                       !.tqe_prev[e] = HEAD]

\* Faulty variant: the head's tqh_last is not moved to the new element.
TAILQ_INSERT_TAIL_stale_last(q, e) ==
    Store([q EXCEPT !.tqe_next[e] = NULL, !.tqe_prev[e] = q.tqh_last], q.tqh_last, e)

TAILQ_INSERT_TAIL(q, e) ==
    LET linked == [q EXCEPT !.tqe_next[e] = NULL, !.tqe_prev[e] = q.tqh_last]
    IN  [Store(linked, q.tqh_last, e) EXCEPT !.tqh_last = e]

\* Faulty variant: the successor keeps its old back pointer.
TAILQ_REMOVE_one_way(q, e) == Store(q, q.tqe_prev[e], q.tqe_next[e])

\* The macro never looks whether e is linked: it splices out whatever e's own
\* links point to.
TAILQ_REMOVE(q, e) ==
    LET next == q.tqe_next[e]
        prev == q.tqe_prev[e]
        back == IF next # NULL THEN [q EXCEPT !.tqe_prev[next] = prev]
                               ELSE [q EXCEPT !.tqh_last = prev]
    IN  Store(back, prev, next)

\* The store through tqe_prev that TAILQ_REMOVE ends with goes to address 0
\* when e has never been linked.
RemoveFaults(q, e) == q.tqe_prev[e] = NULL

-----------------------------------------------------------------------------
(* What a reader of the list sees: the walk of TAILQ_FOREACH.              *)

\* The element the walk is at after n steps, NULL once it has run off the end.
NthElem(q, n) ==
    LET at[k \in Nat] == IF k = 0 THEN q.tqh_first
                         ELSE IF at[k-1] = NULL THEN NULL
                         ELSE q.tqe_next[at[k-1]]
    IN  at[n]

\* The elements met on the walk (a cyclic list meets at most all of them).
Linked(q) == {NthElem(q, n) : n \in 0..Cardinality(Elem)} \ {NULL}

\* The walk ends, and every back pointer on it is the address of the field
\* that points to its element, so that removal in O(1) is sound.
WellLinked(q) ==
    /\ NthElem(q, Cardinality(Elem)) = NULL
    /\ \A e \in Linked(q) :
          IF q.tqh_first = e THEN q.tqe_prev[e] = HEAD
          ELSE /\ q.tqe_prev[e] \in Linked(q)
               /\ q.tqe_next[q.tqe_prev[e]] = e
    /\ IF q.tqh_first = NULL THEN q.tqh_last = HEAD
       ELSE /\ q.tqh_last \in Linked(q)
            /\ q.tqe_next[q.tqh_last] = NULL

\* The list as a sequence, for a list whose walk ends.
AsSequence(q) ==
    LET len == Cardinality(Linked(q))
    IN  [i \in 1..len |-> NthElem(q, i - 1)]
=============================================================================
