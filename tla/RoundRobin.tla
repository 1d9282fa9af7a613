----------------------------- MODULE RoundRobin -----------------------------
(***************************************************************************)
(* What schedule() promises (kern/sched.c, "Implement a round-robin         *)
(* scheduling"): the runnable environments stand in one line, the one at    *)
(* the front has the processor, and it goes to the back of the line when    *)
(* its slices are used up or it yields.                                     *)
(***************************************************************************)
EXTENDS Integers, Sequences

CONSTANTS Env, NULL

VARIABLES queue,     \* the runnable environments, in the order they will run
          running,   \* the one that has the processor, NULL before the first
          slices     \* ticks it may still keep it

rrVars == <<queue, running, slices>>

Members == {queue[i] : i \in 1..Len(queue)}

\* The line without its i-th member.
Without(i) == [k \in 1..(Len(queue) - 1) |-> IF k < i THEN queue[k] ELSE queue[k + 1]]

RRInit == queue = <<>> /\ running = NULL /\ slices = 0

\* The front of q gets the processor for some number of slices.
Dispatch(q) ==
    /\ queue' = q
    /\ IF q = <<>> THEN running' = NULL /\ UNCHANGED slices
                   ELSE running' = Head(q) /\ slices' \in Nat

\* Before anything runs, an environment may be put at the front.
Create(e) == /\ running = NULL /\ e \notin Members
             /\ queue' = <<e>> \o queue
             /\ UNCHANGED <<running, slices>>

Arrive(e) == /\ e \notin Members
             /\ queue' = Append(queue, e)
             /\ UNCHANGED <<running, slices>>

Leave(e) == /\ e # running
            /\ \E i \in 1..Len(queue) : queue[i] = e /\ queue' = Without(i)
            /\ UNCHANGED <<running, slices>>

Start == running = NULL /\ queue # <<>> /\ Dispatch(queue)

Tick == /\ running # NULL /\ slices > 0
        /\ slices' = slices - 1
        /\ UNCHANGED <<queue, running>>

Rotate == /\ running # NULL
          /\ Dispatch(Append(Tail(queue), Head(queue)))

Retire == running # NULL /\ Dispatch(Tail(queue))

RRNext == \/ \E e \in Env : Create(e) \/ Arrive(e) \/ Leave(e)
          \/ Start \/ Tick \/ Rotate \/ Retire

RRSpec == RRInit /\ [][RRNext]_rrVars
=============================================================================
