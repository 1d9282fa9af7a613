------------------------------- MODULE PipeBuf -------------------------------
(***************************************************************************)
(* The transfer of bytes through a pipe: pipe_read and pipe_write of        *)
(* user/lib/pipe.c, called by one reader and one writer that the timer      *)
(* interleaves at will.                                                     *)
(*                                                                         *)
(* One step is one access to memory the other side writes: the positions    *)
(* p_rpos and p_wpos (u_int, so modulo PosMod), a cell of p_buf, and the     *)
(* answer of _pipe_is_closed, which PipeRefs shows to be a correct snapshot. *)
(* Byte k of the stream is the number k.                                    *)
(***************************************************************************)
EXTENDS Integers, Sequences

CONSTANTS BY2PIPE,    \* capacity (32 in the code)
          PosMod,     \* positions count modulo this (2^32: u_int)
          MaxBytes,   \* bound: bytes the writer ever offers
          Sizes       \* the n of a read or write call

ASSUME CapacityAssumption == BY2PIPE \in Nat \ {0}
ASSUME PosModAssumption == /\ PosMod \in Nat /\ PosMod > BY2PIPE
                           /\ PosMod % BY2PIPE = 0
ASSUME SizesAssumption == Sizes \subseteq Nat \ {0} /\ MaxBytes \in Nat

VARIABLES p_rpos, p_wpos, p_buf,  \* struct Pipe
          rpc, ri, rn,            \* the reader: place, i and n of pipe_read
          wpc, wi, wn,            \* the writer: place, i and n of pipe_write
          ropen, wopen,           \* some environment holds the end
          sent,                   \* history: bytes stored so far
          got                     \* history: the bytes the reader received

pipe == <<p_rpos, p_wpos, p_buf>>
reader == <<rpc, ri, rn>>
writer == <<wpc, wi, wn>>
ends == <<ropen, wopen>>
vars == <<pipe, reader, writer, ends, sent, got>>

Position == 0..(PosMod - 1)
Cell == 0..(BY2PIPE - 1)

TypeOK ==
    /\ p_rpos \in Position /\ p_wpos \in Position
    /\ p_buf \in [Cell -> 0..MaxBytes]
    /\ rpc \in {"user", "empty?", "closed?", "load", "advance", "returned"}
    /\ wpc \in {"user", "full?", "closed?", "store", "advance", "returned"}
    /\ ri \in Nat /\ rn \in Nat /\ wi \in Nat /\ wn \in Nat
    /\ ri <= rn /\ wi <= wn
    /\ ropen \in BOOLEAN /\ wopen \in BOOLEAN
    /\ sent \in 0..MaxBytes
    /\ got \in Seq(1..MaxBytes)

\* A fresh pipe: pipe() gets a zeroed page.
Init ==
    /\ p_rpos = 0 /\ p_wpos = 0 /\ p_buf = [c \in Cell |-> 0]
    /\ rpc = "user" /\ ri = 0 /\ rn = 0
    /\ wpc = "user" /\ wi = 0 /\ wn = 0
    /\ ropen = TRUE /\ wopen = TRUE
    /\ sent = 0 /\ got = <<>>

-----------------------------------------------------------------------------
(* pipe_write                                                              *)

\* p->p_wpos - p->p_rpos in unsigned arithmetic.
Used == (p_wpos - p_rpos) % PosMod

pipe_write(n) ==
    /\ wopen /\ wpc \in {"user", "returned"} /\ sent + n <= MaxBytes
    /\ wpc' = "full?" /\ wi' = 0 /\ wn' = n
    /\ UNCHANGED <<pipe, reader, ends, sent, got>>

\* Faulty variant: one byte too many fits.
write_test_lax ==
    /\ wpc = "full?"
    /\ wpc' = IF Used > BY2PIPE THEN "closed?" ELSE "store"
    /\ UNCHANGED <<pipe, reader, wi, wn, ends, sent, got>>

write_test ==
    /\ wpc = "full?"
    /\ wpc' = IF Used = BY2PIPE THEN "closed?" ELSE "store"
    /\ UNCHANGED <<pipe, reader, wi, wn, ends, sent, got>>

\* _pipe_is_closed: return what was written so far, or yield and look again.
write_closed ==
    /\ wpc = "closed?"
    /\ wpc' = IF ~ropen THEN "returned" ELSE "full?"
    /\ UNCHANGED <<pipe, reader, wi, wn, ends, sent, got>>

write_store ==
    /\ wpc = "store"
    /\ p_buf' = [p_buf EXCEPT ![p_wpos % BY2PIPE] = sent + 1]
    /\ sent' = sent + 1
    /\ wpc' = "advance"
    /\ UNCHANGED <<p_rpos, p_wpos, reader, wi, wn, ends, got>>

write_advance ==
    /\ wpc = "advance"
    /\ p_wpos' = (p_wpos + 1) % PosMod
    /\ wi' = wi + 1
    /\ wpc' = IF wi + 1 < wn THEN "full?" ELSE "returned"
    /\ UNCHANGED <<p_rpos, p_buf, reader, wn, ends, sent, got>>

close_writer ==
    /\ wopen /\ wpc \in {"user", "returned"}
    /\ wopen' = FALSE
    /\ UNCHANGED <<pipe, reader, writer, ropen, sent, got>>

-----------------------------------------------------------------------------
(* pipe_read                                                               *)

pipe_read(n) ==
    /\ ropen /\ rpc \in {"user", "returned"}
    /\ rpc' = "empty?" /\ ri' = 0 /\ rn' = n
    /\ UNCHANGED <<pipe, writer, ends, sent, got>>

read_test ==
    /\ rpc = "empty?"
    /\ rpc' = IF p_rpos = p_wpos THEN "closed?" ELSE "load"
    /\ UNCHANGED <<pipe, ri, rn, writer, ends, sent, got>>

\* Faulty variants: an empty pipe ends the read; a closed one does not.
read_closed_eager ==
    /\ rpc = "closed?"
    /\ rpc' = "returned"
    /\ UNCHANGED <<pipe, ri, rn, writer, ends, sent, got>>

read_closed_deaf ==
    /\ rpc = "closed?"
    /\ rpc' = IF ri > 0 THEN "returned" ELSE "empty?"
    /\ UNCHANGED <<pipe, ri, rn, writer, ends, sent, got>>

read_closed ==
    /\ rpc = "closed?"
    /\ rpc' = IF ~wopen \/ ri > 0 THEN "returned" ELSE "empty?"
    /\ UNCHANGED <<pipe, ri, rn, writer, ends, sent, got>>

read_load ==
    /\ rpc = "load"
    /\ got' = Append(got, p_buf[p_rpos % BY2PIPE])
    /\ rpc' = "advance"
    /\ UNCHANGED <<pipe, ri, rn, writer, ends, sent>>

read_advance ==
    /\ rpc = "advance"
    /\ p_rpos' = (p_rpos + 1) % PosMod
    /\ ri' = ri + 1
    /\ rpc' = IF ri + 1 < rn THEN "empty?" ELSE "returned"
    /\ UNCHANGED <<p_wpos, p_buf, rn, writer, ends, sent, got>>

close_reader ==
    /\ ropen /\ rpc \in {"user", "returned"}
    /\ ropen' = FALSE
    /\ UNCHANGED <<pipe, reader, writer, wopen, sent, got>>

ReaderStep == read_test \/ read_closed \/ read_load \/ read_advance
WriterStep == write_test \/ write_closed \/ write_store \/ write_advance

Next ==
    \/ \E n \in Sizes : pipe_read(n) \/ pipe_write(n)
    \/ read_test \/ read_closed \/ read_load \/ read_advance \/ close_reader
    \/ write_test \/ write_closed \/ write_store \/ write_advance \/ close_writer

\* Round robin gives both sides the processor again and again, and a call that
\* has begun goes on; neither has to make another call, or to close.
Fairness == WF_vars(ReaderStep) /\ WF_vars(WriterStep)

Spec == Init /\ [][Next]_vars
FairSpec == Spec /\ Fairness

-----------------------------------------------------------------------------
(* Properties.                                                             *)

\* What has been read is what was written, in order, nothing twice and nothing
\* left out, for all interleavings and across the wrap of the positions.
Fifo == got = [k \in 1..Len(got) |-> k] /\ Len(got) <= sent

\* The writer never laps the reader: at most BY2PIPE bytes are in the buffer,
\* and every one of them is still intact in its cell.
BufferIntact ==
    /\ Used <= BY2PIPE
    /\ LET read == Len(got) - (IF rpc = "advance" THEN 1 ELSE 0) IN
       \A k \in 0..(Used - 1) :
          p_buf[((p_rpos + k) % PosMod) % BY2PIPE] = read + k + 1

\* pipe_read returns 0 only after the last writer is gone, and pipe_write
\* returns short only after the last reader is gone.
ShortOnlyIfClosed ==
    /\ rpc = "returned" /\ ri = 0 => ~wopen
    /\ wpc = "returned" /\ wi < wn => ~ropen

\* pipe.c:125: "The return value must be greater than 0, unless the pipe is
\* closed and nothing has been written since the last read".
EofMeansDrained == rpc = "returned" /\ ri = 0 => ~wopen /\ Len(got) = sent

\* A read does not outlive the writers, nor a write the readers: once the other
\* end is closed, the call in progress returns.
CallsReturn ==
    /\ (~wopen /\ rpc \notin {"user", "returned"}) ~> (rpc = "returned")
    /\ (~ropen /\ wpc \notin {"user", "returned"}) ~> (wpc = "returned")

\* Bytes in the pipe get through: a call of pipe_read that has bytes to read
\* returns, even if the writer stops for good.
ReadProgress == (rpc = "empty?" /\ p_rpos # p_wpos) ~> (rpc = "returned" /\ ri > 0)

\* Bytes go through the pipe in order, once, and are not overwritten before they
\* are read, with positions that wrap (pipe_read, pipe_write).
BytesIntact == TypeOK /\ Fifo /\ BufferIntact

\* A call comes to its end: when the other end goes, and when there are bytes.
CallsEnd == CallsReturn /\ ReadProgress

=============================================================================
