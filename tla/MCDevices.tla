------------------------------ MODULE MCDevices -----------------------------
(***************************************************************************)
(* The two devices of fd.c that read() and write() lead to, for TLC: a pipe *)
(* (PipeBuf) and a file (FileMap).  They share no state; a behaviour is     *)
(* about one of them, and the other stays as it is at the start.            *)
(***************************************************************************)
EXTENDS PipeBuf, FileMap

VARIABLE dev         \* the device this behaviour is about

DevicesInit == dev \in {"pipe", "file"} /\ Init /\ FileInit

DevicesNext ==
    \/ dev = "pipe" /\ Next /\ UNCHANGED <<dev, fileVars>>
    \/ dev = "file" /\ FileNext /\ UNCHANGED <<dev, vars>>

\* In a pipe a call that has begun goes on.  No call has begun at the start, so
\* this says nothing of behaviours about a file.
DevicesSpec == DevicesInit /\ [][DevicesNext]_<<dev, vars, fileVars>> /\ Fairness

=============================================================================
