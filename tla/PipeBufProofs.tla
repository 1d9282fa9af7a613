---------------------------- MODULE PipeBufProofs ----------------------------
(***************************************************************************)
(* Theorems about the two devices that read() and write() lead to: PipeBuf,  *)
(* for every capacity, every width of the positions that is a multiple of   *)
(* it, every number of bytes and every size of the calls; and FileMap, for  *)
(* every number of processes, blocks and pages and every page size.         *)
(***************************************************************************)
EXTENDS PipeBuf, FileMap, TLAPS

\* Bytes the reader has taken out, and bytes the writer has put in, as the
\* positions tell: each position moves one step after the byte it is for.
Taken == Len(got) - (IF rpc = "advance" THEN 1 ELSE 0)
Put == sent - (IF wpc = "advance" THEN 1 ELSE 0)

\* The positions are these counts, in the width of a u_int.
PositionsCount == p_rpos = Taken % PosMod /\ p_wpos = Put % PosMod

\* The writer is ahead by at most a full buffer, by less where it has found room;
\* the reader is behind where it has found a byte.
Distance ==
    /\ 0 <= Taken /\ Taken <= Put /\ Put <= Taken + BY2PIPE
    /\ wpc \in {"store", "advance"} => Put < Taken + BY2PIPE
    /\ rpc \in {"load", "advance"} => Taken < Put

\* Every byte that is stored and not taken is in its cell.
CellsHold == \A k \in Taken + 1 .. sent : p_buf[(k - 1) % BY2PIPE] = k

\* A call in its loop has bytes left to transfer, and the writer's are offered.
Remaining ==
    /\ rpc \in {"empty?", "closed?", "load", "advance"} => ri < rn
    /\ wpc \in {"full?", "closed?", "store", "advance"} =>
           wi < wn /\ Put + (wn - wi) <= MaxBytes

InOrder == \A k \in 1..Len(got) : got[k] = k

IInv == TypeOK /\ PositionsCount /\ Distance /\ CellsHold /\ Remaining /\ InOrder

-----------------------------------------------------------------------------
(* Arithmetic of positions that wrap.                                      *)

\* The remainder is the only number in range with some quotient.
LEMMA ModUnique ==
    ASSUME NEW M \in Nat \ {0}, NEW q \in Int, NEW r \in 0..(M - 1)
    PROVE  (M * q + r) % M = r
<1> DEFINE a == M * q + r
<1> DEFINE p == a \div M
<1> DEFINE s == a % M
<1>1. a \in Int /\ p \in Int /\ s \in 0..(M - 1) /\ a = M * p + s
  OBVIOUS
<1> HIDE DEF p, s
<1>2. ~(p >= q + 1)
  <2> SUFFICES ASSUME p >= q + 1 PROVE FALSE
    OBVIOUS
  <2>1. M * p >= M * (q + 1)
    BY <1>1
  <2>2. M * (q + 1) = M * q + M
    OBVIOUS
  <2> QED BY <1>1, <2>1, <2>2
<1>3. ~(q >= p + 1)
  <2> SUFFICES ASSUME q >= p + 1 PROVE FALSE
    OBVIOUS
  <2>1. M * q >= M * (p + 1)
    BY <1>1
  <2>2. M * (p + 1) = M * p + M
    BY <1>1
  <2> QED BY <1>1, <2>1, <2>2
<1>4. p = q
  BY <1>1, <1>2, <1>3
<1> QED BY <1>1, <1>4 DEF s

\* Taking the remainder may be put off.
LEMMA ModPlus ==
    ASSUME NEW M \in Nat \ {0}, NEW a \in Int, NEW k \in Int
    PROVE  ((a % M) + k) % M = (a + k) % M
<1> DEFINE p == a \div M
<1> DEFINE r == a % M
<1> DEFINE s == (a + k) % M
<1> DEFINE t == (a + k) \div M
<1>1. p \in Int /\ a = M * p + r /\ r \in 0..(M - 1)
  OBVIOUS
<1>2. t \in Int /\ a + k = M * t + s /\ s \in 0..(M - 1)
  OBVIOUS
<1> HIDE DEF p, r, s, t
<1>3. M * (t - p) = M * t - M * p
  BY <1>1, <1>2
<1>4. r + k = M * (t - p) + s
  BY <1>1, <1>2, <1>3
<1>5. (M * (t - p) + s) % M = s
  BY <1>1, <1>2, ModUnique
<1> QED BY <1>4, <1>5 DEF r, s

LEMMA ModSmall ==
    ASSUME NEW M \in Nat \ {0}, NEW a \in 0..(M - 1)
    PROVE  a % M = a
  BY ModUnique, M * 0 + a = a

\* The difference of two positions, in unsigned arithmetic, is that of the counts.
LEMMA ModDifference ==
    ASSUME NEW M \in Nat \ {0}, NEW a \in Int, NEW b \in Int, b - a \in 0..(M - 1)
    PROVE  ((b % M) - (a % M)) % M = b - a
<1> DEFINE p == a \div M
<1> DEFINE s == a % M
<1>1. p \in Int /\ a = M * p + s /\ s \in 0..(M - 1)
  OBVIOUS
<1> HIDE DEF p, s
<1>2. ((b % M) - s) % M = (b - s) % M
  BY <1>1, ModPlus, -s \in Int, (b % M) + (-s) = (b % M) - s, b + (-s) = b - s
<1>3. b - s = M * p + (b - a)
  BY <1>1
<1>4. (M * p + (b - a)) % M = b - a
  BY <1>1, ModUnique
<1> QED BY <1>2, <1>3, <1>4 DEF s

\* The cell of a position is that of the count, as the capacity divides the width.
LEMMA ModMod ==
    ASSUME NEW B \in Nat \ {0}, NEW M \in Nat \ {0}, M % B = 0, NEW a \in Int
    PROVE  (a % M) % B = a % B
<1> DEFINE c == M \div B
<1> DEFINE p == a \div M
<1> DEFINE s == a % M
<1> DEFINE t == s \div B
<1> DEFINE u == s % B
<1>1. c \in Int /\ M = B * c
  OBVIOUS
<1>2. p \in Int /\ a = M * p + s /\ s \in 0..(M - 1)
  OBVIOUS
<1> HIDE DEF c, p, s
<1>3. t \in Int /\ s = B * t + u /\ u \in 0..(B - 1)
  BY <1>2
<1> HIDE DEF t, u
<1>4. M * p = B * (c * p)
  BY <1>1, <1>2
<1>5. B * (c * p) + B * t = B * (c * p + t)
  BY <1>1, <1>2, <1>3
<1>6. a = B * (c * p + t) + u
  BY <1>1, <1>2, <1>3, <1>4, <1>5
<1>7. (B * (c * p + t) + u) % B = u
  BY <1>1, <1>2, <1>3, ModUnique
<1> QED BY <1>6, <1>7 DEF u, s

\* Counts less than a full buffer apart have different cells.
LEMMA CellsDiffer ==
    ASSUME NEW B \in Nat \ {0}, NEW a \in Int, NEW b \in Int, a < b, b < a + B
    PROVE  a % B # b % B
<1>1. ((b % B) - (a % B)) % B = b - a
  BY ModDifference, b - a \in 0..(B - 1)
<1>2. 0 % B = 0
  BY ModSmall
<1>3. a % B \in Int /\ b % B \in Int
  OBVIOUS
<1> QED BY <1>1, <1>2, <1>3

-----------------------------------------------------------------------------
(* The inductive invariant.                                                *)

\* What the invariant says of the counts and of what the code computes from the
\* positions.
LEMMA CountFacts ==
    ASSUME IInv
    PROVE  /\ Taken \in Nat /\ Put \in Nat
           /\ Put <= sent /\ sent <= Put + 1
           /\ Used = Put - Taken
           /\ p_rpos % BY2PIPE = Taken % BY2PIPE
           /\ p_wpos % BY2PIPE = Put % BY2PIPE
           /\ (p_rpos + 1) % PosMod = (Taken + 1) % PosMod
           /\ (p_wpos + 1) % PosMod = (Put + 1) % PosMod
<1> USE CapacityAssumption, PosModAssumption, SizesAssumption
<1>1. Len(got) \in Nat /\ sent \in Nat
  BY DEF IInv, TypeOK
<1>2. Put \in Int /\ Taken \in Int /\ Put <= sent /\ sent <= Put + 1
  BY <1>1 DEF Put, Taken
<1>3. Put - Taken \in 0..BY2PIPE
  BY <1>2 DEF IInv, Distance
<1>4. Taken \in Nat /\ Put \in Nat
  BY <1>2 DEF IInv, Distance
<1>5. Used = Put - Taken
  BY <1>2, <1>3, ModDifference, Put - Taken \in 0..(PosMod - 1), PosMod \in Nat \ {0}
  DEF IInv, PositionsCount, Used
<1>6. p_rpos % BY2PIPE = Taken % BY2PIPE /\ p_wpos % BY2PIPE = Put % BY2PIPE
  <2>1. PosMod \in Nat \ {0} /\ BY2PIPE \in Nat \ {0} /\ PosMod % BY2PIPE = 0
    OBVIOUS
  <2>2. p_rpos = Taken % PosMod /\ p_wpos = Put % PosMod
    BY DEF IInv, PositionsCount
  <2>3. (Taken % PosMod) % BY2PIPE = Taken % BY2PIPE /\ (Put % PosMod) % BY2PIPE = Put % BY2PIPE
    BY <1>2, <2>1, ModMod
  <2> QED BY <2>2, <2>3
<1>7. (p_rpos + 1) % PosMod = (Taken + 1) % PosMod
  BY <1>2, ModPlus, PosMod \in Nat \ {0}, 1 \in Int DEF IInv, PositionsCount
<1>8. (p_wpos + 1) % PosMod = (Put + 1) % PosMod
  BY <1>2, ModPlus, PosMod \in Nat \ {0}, 1 \in Int DEF IInv, PositionsCount
<1> QED BY <1>2, <1>4, <1>5, <1>6, <1>7, <1>8

\* A step that transfers nothing.
LEMMA QuietStep ==
    ASSUME IInv, UNCHANGED <<pipe, sent, got>>, Taken' = Taken, Put' = Put
    PROVE  PositionsCount' /\ CellsHold' /\ InOrder'
  BY DEF IInv, PositionsCount, CellsHold, InOrder, pipe

LEMMA InitInv == Init => IInv
<1> SUFFICES ASSUME Init PROVE IInv
  OBVIOUS
<1> USE CapacityAssumption, PosModAssumption, SizesAssumption DEF Init
<1>1. Len(got) = 0 /\ Taken = 0 /\ Put = 0
  BY DEF Taken, Put
<1>2. TypeOK
  BY DEF TypeOK, Position, Cell
<1>3. PositionsCount
  BY <1>1, ModSmall, PosMod \in Nat \ {0}, 0 \in 0..(PosMod - 1) DEF PositionsCount
<1>4. Distance /\ CellsHold /\ Remaining /\ InOrder
  BY <1>1 DEF Distance, CellsHold, Remaining, InOrder
<1> QED BY <1>2, <1>3, <1>4 DEF IInv

\* One action keeps the invariant.
LEMMA NextInv ==
    ASSUME IInv, [Next]_vars
    PROVE  IInv'
<1> USE CapacityAssumption, PosModAssumption, SizesAssumption
<1>0. /\ TypeOK /\ Distance /\ Remaining
      /\ Len(got) \in Nat /\ sent \in Nat /\ Taken \in Nat /\ Put \in Nat
  BY CountFacts, SMTT(30) DEF IInv, TypeOK
<1>1. ASSUME NEW n \in Sizes, pipe_read(n) PROVE IInv'
  <2>1. Taken' = Taken /\ Put' = Put /\ UNCHANGED <<pipe, sent, got>>
    BY <1>1 DEF pipe_read, Taken, Put, writer
  <2>2. TypeOK' /\ Distance' /\ Remaining'
    BY <1>0, <1>1, <2>1 DEF pipe_read, TypeOK, Distance, Remaining, pipe, writer, ends
  <2> QED BY <2>1, <2>2, QuietStep DEF IInv
<1>2. ASSUME NEW n \in Sizes, pipe_write(n) PROVE IInv'
  <2>1. Taken' = Taken /\ Put' = Put /\ UNCHANGED <<pipe, sent, got>>
    BY <1>2 DEF pipe_write, Taken, Put, reader
  <2>2. TypeOK' /\ Distance' /\ Remaining'
    BY <1>0, <1>2, <2>1 DEF pipe_write, TypeOK, Distance, Remaining, pipe, reader, ends, Put
  <2> QED BY <2>1, <2>2, QuietStep DEF IInv
<1>3. CASE read_test
  <2>1. Taken' = Taken /\ Put' = Put /\ UNCHANGED <<pipe, sent, got>>
    BY <1>3 DEF read_test, Taken, Put, writer
  <2>2. p_rpos # p_wpos => Taken # Put
    BY DEF IInv, PositionsCount
  <2>3. TypeOK' /\ Distance' /\ Remaining'
    BY <1>0, <1>3, <2>1, <2>2
    DEF read_test, TypeOK, Distance, Remaining, pipe, writer, ends
  <2> QED BY <2>1, <2>3, QuietStep DEF IInv
<1>4. CASE read_closed
  <2>1. Taken' = Taken /\ Put' = Put /\ UNCHANGED <<pipe, sent, got>>
    BY <1>4 DEF read_closed, Taken, Put, writer
  <2>2. TypeOK' /\ Distance' /\ Remaining'
    BY <1>0, <1>4, <2>1 DEF read_closed, TypeOK, Distance, Remaining, pipe, writer, ends
  <2> QED BY <2>1, <2>2, QuietStep DEF IInv
<1>5. CASE read_load
  <2>1. Taken = Len(got) /\ Taken < Put /\ Put <= sent /\ sent <= MaxBytes
    BY <1>0, <1>5, CountFacts DEF read_load, Taken, Distance, TypeOK
  <2>2. p_buf[p_rpos % BY2PIPE] = Taken + 1
    <3>1. p_buf[((Taken + 1) - 1) % BY2PIPE] = Taken + 1
      BY <1>0, <2>1, Taken + 1 \in Taken + 1 .. sent DEF IInv, CellsHold
    <3> QED BY <1>0, <3>1, CountFacts, (Taken + 1) - 1 = Taken
  <2>3. got' = Append(got, Len(got) + 1)
    BY <1>5, <2>1, <2>2 DEF read_load
  <2>4. /\ Len(got') = Len(got) + 1 /\ got' \in Seq(1..MaxBytes)
        /\ \A k \in 1..Len(got') : got'[k] = k
    BY <1>0, <2>1, <2>3 DEF IInv, TypeOK, InOrder
  <2>5. Taken' = Taken /\ Put' = Put /\ UNCHANGED <<p_rpos, p_wpos, p_buf, sent>>
    BY <1>0, <1>5, <2>1, <2>4 DEF read_load, Taken, Put, pipe, writer
  <2>6. TypeOK' /\ Distance' /\ Remaining'
    BY <1>0, <1>5, <2>1, <2>4, <2>5
    DEF read_load, TypeOK, Distance, Remaining, pipe, writer, ends
  <2>7. PositionsCount' /\ CellsHold'
    BY <2>5 DEF IInv, PositionsCount, CellsHold
  <2> QED BY <2>4, <2>6, <2>7 DEF IInv, InOrder
<1>6. CASE read_advance
  <2>1. Taken' = Taken + 1 /\ Put' = Put /\ UNCHANGED <<p_wpos, p_buf, sent, got>>
    BY <1>0, <1>6 DEF read_advance, Taken, Put, writer
  <2>2. TypeOK' /\ Distance' /\ Remaining'
    BY <1>0, <1>6, <2>1
    DEF read_advance, TypeOK, Position, Distance, Remaining, writer, ends
  <2>3. PositionsCount'
    BY <1>6, <2>1, CountFacts DEF read_advance, IInv, PositionsCount
  <2>4. CellsHold' /\ InOrder'
    BY <1>0, <2>1 DEF IInv, CellsHold, InOrder
  <2> QED BY <2>2, <2>3, <2>4 DEF IInv
<1>7. CASE close_reader
  <2>1. Taken' = Taken /\ Put' = Put /\ UNCHANGED <<pipe, sent, got>>
    BY <1>7 DEF close_reader, Taken, Put, reader, writer
  <2>2. TypeOK' /\ Distance' /\ Remaining'
    BY <1>0, <1>7, <2>1
    DEF close_reader, TypeOK, Distance, Remaining, pipe, reader, writer
  <2> QED BY <2>1, <2>2, QuietStep DEF IInv
<1>8. CASE write_test
  <2>1. Taken' = Taken /\ Put' = Put /\ UNCHANGED <<pipe, sent, got>>
    BY <1>8 DEF write_test, Taken, Put, reader
  <2>2. Used # BY2PIPE => Put < Taken + BY2PIPE
    BY <1>0, CountFacts DEF Distance
  <2>3. TypeOK' /\ Distance' /\ Remaining'
    BY <1>0, <1>8, <2>1, <2>2
    DEF write_test, TypeOK, Distance, Remaining, pipe, reader, ends
  <2> QED BY <2>1, <2>3, QuietStep DEF IInv
<1>9. CASE write_closed
  <2>1. Taken' = Taken /\ Put' = Put /\ UNCHANGED <<pipe, sent, got>>
    BY <1>9 DEF write_closed, Taken, Put, reader
  <2>2. TypeOK' /\ Distance' /\ Remaining'
    BY <1>0, <1>9, <2>1 DEF write_closed, TypeOK, Distance, Remaining, pipe, reader, ends
  <2> QED BY <2>1, <2>2, QuietStep DEF IInv
<1>10. CASE write_store
  <2>1. Put = sent /\ sent + 1 <= MaxBytes /\ Put < Taken + BY2PIPE
    BY <1>0, <1>10 DEF write_store, Put, Distance, Remaining, TypeOK
  <2>2. p_buf' = [p_buf EXCEPT ![sent % BY2PIPE] = sent + 1] /\ sent % BY2PIPE \in Cell
    <3>1. p_wpos % BY2PIPE = sent % BY2PIPE
      BY <2>1, CountFacts
    <3>2. sent % BY2PIPE \in Cell
      BY <1>0 DEF Cell
    <3> QED BY <1>10, <3>1, <3>2 DEF write_store
  <2>3. Taken' = Taken /\ Put' = Put /\ sent' = sent + 1 /\ UNCHANGED <<p_rpos, p_wpos, got>>
    BY <1>0, <1>10, <2>1 DEF write_store, Taken, Put, reader
  <2>4. TypeOK' /\ Distance' /\ Remaining'
    <3>1. p_buf' \in [Cell -> 0..MaxBytes] /\ sent' \in 0..MaxBytes
      BY <1>0, <2>1, <2>2, <2>3 DEF TypeOK
    <3>2. TypeOK'
      BY <1>0, <1>10, <2>3, <3>1 DEF write_store, TypeOK, reader, ends
    <3>3. Distance' /\ Remaining'
      BY <1>0, <1>10, <2>1, <2>3 DEF write_store, Distance, Remaining, reader
    <3> QED BY <3>2, <3>3
  <2>5. ASSUME NEW k \in Taken + 1 .. sent + 1
        PROVE  p_buf'[(k - 1) % BY2PIPE] = k
    <3>0. p_buf \in [Cell -> 0..MaxBytes] /\ (k - 1) % BY2PIPE \in Cell
      BY <1>0 DEF TypeOK, Cell
    <3>1. CASE k = sent + 1
      BY <1>0, <2>2, <3>0, <3>1, (sent + 1) - 1 = sent
    <3>2. CASE k # sent + 1
      <4>1. (k - 1) % BY2PIPE # sent % BY2PIPE
        <5> DEFINE j == k - 1
        <5>1. j \in Int /\ sent \in Int /\ j < sent /\ sent < j + BY2PIPE
          BY <1>0, <2>1, <3>2
        <5> HIDE DEF j
        <5>2. j % BY2PIPE # sent % BY2PIPE
          BY <5>1, CellsDiffer
        <5> QED BY <5>2 DEF j
      <4>2. p_buf[(k - 1) % BY2PIPE] = k
        BY <1>0, <3>2, k \in Taken + 1 .. sent DEF IInv, CellsHold
      <4> QED BY <2>2, <3>0, <4>1, <4>2
    <3> QED BY <3>1, <3>2
  <2>6. CellsHold'
    BY <2>3, <2>5 DEF CellsHold
  <2>7. PositionsCount' /\ InOrder'
    BY <2>3 DEF IInv, PositionsCount, InOrder
  <2> QED BY <2>4, <2>6, <2>7 DEF IInv
<1>11. CASE write_advance
  <2>1. Put' = Put + 1 /\ Taken' = Taken /\ UNCHANGED <<p_rpos, p_buf, sent, got>>
    BY <1>0, <1>11 DEF write_advance, Taken, Put, reader
  <2>2. TypeOK' /\ Distance' /\ Remaining'
    BY <1>0, <1>11, <2>1
    DEF write_advance, TypeOK, Position, Distance, Remaining, reader, ends
  <2>3. PositionsCount'
    BY <1>11, <2>1, CountFacts DEF write_advance, IInv, PositionsCount
  <2>4. CellsHold' /\ InOrder'
    BY <1>0, <2>1 DEF IInv, CellsHold, InOrder
  <2> QED BY <2>2, <2>3, <2>4 DEF IInv
<1>12. CASE close_writer
  <2>1. Taken' = Taken /\ Put' = Put /\ UNCHANGED <<pipe, sent, got>>
    BY <1>12 DEF close_writer, Taken, Put, reader, writer
  <2>2. TypeOK' /\ Distance' /\ Remaining'
    BY <1>0, <1>12, <2>1
    DEF close_writer, TypeOK, Distance, Remaining, pipe, reader, writer
  <2> QED BY <2>1, <2>2, QuietStep DEF IInv
<1>13. CASE UNCHANGED vars
  <2>1. Taken' = Taken /\ Put' = Put /\ UNCHANGED <<pipe, sent, got>>
    BY <1>13 DEF vars, reader, writer, Taken, Put
  <2>2. TypeOK' /\ Distance' /\ Remaining'
    BY <1>0, <1>13, <2>1
    DEF vars, TypeOK, Distance, Remaining, pipe, reader, writer, ends
  <2> QED BY <2>1, <2>2, QuietStep DEF IInv
<1> QED
  BY <1>1, <1>2, <1>3, <1>4, <1>5, <1>6, <1>7, <1>8, <1>9, <1>10, <1>11, <1>12, <1>13
  DEF Next

-----------------------------------------------------------------------------

\* What the reader receives is what the writer stored, and no byte is overwritten
\* before it is taken: the invariant gives Fifo and BufferIntact.
LEMMA InvIntact == IInv => BytesIntact
<1> SUFFICES ASSUME IInv PROVE TypeOK /\ Fifo /\ BufferIntact
  BY DEF BytesIntact
<1> USE CapacityAssumption, PosModAssumption
<1>0. /\ TypeOK /\ Distance
      /\ Len(got) \in Nat /\ sent \in Nat /\ Taken \in Nat /\ Put \in Nat
  BY CountFacts DEF IInv, TypeOK
<1>1. Fifo
  <2>1. got = [k \in 1..Len(got) |-> k]
    BY <1>0 DEF IInv, TypeOK, InOrder
  <2>2. Len(got) <= Put
    BY <1>0 DEF Distance, Taken
  <2> QED BY <1>0, <2>1, <2>2, CountFacts DEF Fifo
<1>2. BufferIntact
  <2>1. Used <= BY2PIPE
    BY <1>0, CountFacts DEF Distance
  <2>2. ASSUME NEW k \in 0..(Used - 1)
        PROVE  p_buf[((p_rpos + k) % PosMod) % BY2PIPE] = Taken + k + 1
    <3>1. (p_rpos + k) % PosMod = (Taken + k) % PosMod
      <4>1. k \in Int
        BY <1>0, CountFacts
      <4>2. ((Taken % PosMod) + k) % PosMod = (Taken + k) % PosMod
        BY <1>0, <4>1, ModPlus, PosMod \in Nat \ {0}, Taken \in Int
      <4> QED BY <4>2 DEF IInv, PositionsCount
    <3>2. ((Taken + k) % PosMod) % BY2PIPE = (Taken + k) % BY2PIPE
      BY <1>0, CountFacts, ModMod, Taken + k \in Int, PosMod \in Nat \ {0}
    <3>3. Taken + k + 1 \in Taken + 1 .. sent /\ (Taken + k + 1) - 1 = Taken + k
      BY <1>0, CountFacts
    <3> QED BY <3>1, <3>2, <3>3 DEF IInv, CellsHold
  <2> QED BY <2>1, <2>2 DEF BufferIntact, Taken
<1> QED BY <1>0, <1>1, <1>2

\* Bytes go through a pipe in order, each once, and none is overwritten before it
\* is read (pipe_read, pipe_write), for every interleaving of reader and writer,
\* every capacity and every width of the positions.
THEOREM PipeIntact == Spec => []BytesIntact
  BY InitInv, NextInv, InvIntact, PTL DEF Spec

\* pipe_read returns 0 only after the last writer is gone, and pipe_write returns
\* short only after the last reader is gone (pipe.c:113-162).
THEOREM ShortOnlyWhenClosed == Spec => []ShortOnlyIfClosed
<1>1. Init => ShortOnlyIfClosed
  BY DEF Init, ShortOnlyIfClosed
<1>2. IInv /\ ShortOnlyIfClosed /\ [Next]_vars => ShortOnlyIfClosed'
  BY DEF IInv, TypeOK, ShortOnlyIfClosed, Next, vars, pipe, reader, writer, ends,
         pipe_read, read_test, read_closed, read_load, read_advance, close_reader,
         pipe_write, write_test, write_closed, write_store, write_advance, close_writer
<1> QED BY <1>1, <1>2, InitInv, NextInv, PTL DEF Spec

-----------------------------------------------------------------------------
(* Files: positions and pages.                                              *)

LEMMA Divide ==
    ASSUME NEW b \in Nat \ {0}, NEW a \in Nat
    PROVE  a \div b \in Nat /\ a % b \in 0..(b - 1) /\ a = b * (a \div b) + (a % b)
OBVIOUS

\* A larger position is on no smaller page.
LEMMA DivideMonotone ==
    ASSUME NEW b \in Nat \ {0}, NEW a \in Nat, NEW c \in Nat, a <= c
    PROVE  a \div b <= c \div b
<1> DEFINE m == a \div b
           l == c \div b
<1>1. m \in Nat /\ a % b \in 0..(b - 1) /\ a = b * m + (a % b)
  BY Divide
<1>2. l \in Nat /\ c % b \in 0..(b - 1) /\ c = b * l + (c % b)
  BY Divide
<1> HIDE DEF m, l
<1>3. SUFFICES ASSUME l < m PROVE FALSE
  BY <1>1, <1>2 DEF m, l
<1>4. PICK d \in Nat : m = l + 1 + d
  <2>1. m - l - 1 \in Nat /\ m = l + 1 + (m - l - 1)
    BY <1>1, <1>2, <1>3
  <2> QED BY <2>1
<1>5. b * m = b * l + b + b * d
  BY <1>1, <1>2, <1>4
<1>6. b * d \in Nat /\ b * l \in Nat /\ b * m \in Nat
  BY <1>1, <1>2, <1>4
<1> QED BY <1>1, <1>2, <1>5, <1>6

\* Page and offset determine the position, and are determined by it.
LEMMA DivideIs ==
    ASSUME NEW b \in Nat \ {0}, NEW m \in Nat, NEW o \in 0..(b - 1)
    PROVE  (m * b + o) \div b = m /\ (m * b + o) % b = o
<1> DEFINE a == m * b + o
           l == a \div b
           t == a % b
<1>1. a \in Nat
  OBVIOUS
<1>2. l \in Nat /\ t \in 0..(b - 1) /\ a = b * l + t
  BY <1>1, Divide
<1>3. (b * m + o) % b = o
  BY ModUnique
<1>4. a = b * m + o
  OBVIOUS
<1>5. t = o
  BY <1>3, <1>4
<1> HIDE DEF a, l, t
<1>6. b * l = b * m
  BY <1>2, <1>4, <1>5
<1>7. l = m
  <2>1. ~(l < m)
    <3> SUFFICES ASSUME l < m PROVE FALSE
      OBVIOUS
    <3>1. PICK d \in Nat : m = l + 1 + d
      <4>1. m - l - 1 \in Nat /\ m = l + 1 + (m - l - 1)
        BY <1>2
      <4> QED BY <4>1
    <3>2. b * m = b * l + b + b * d /\ b * d \in Nat /\ b * l \in Nat
      BY <1>2, <3>1
    <3> QED BY <1>6, <3>2
  <2>2. ~(m < l)
    <3> SUFFICES ASSUME m < l PROVE FALSE
      OBVIOUS
    <3>1. PICK d \in Nat : l = m + 1 + d
      <4>1. l - m - 1 \in Nat /\ l = m + 1 + (l - m - 1)
        BY <1>2
      <4> QED BY <4>1
    <3>2. b * l = b * m + b + b * d /\ b * d \in Nat /\ b * m \in Nat
      BY <1>2, <3>1
    <3> QED BY <1>6, <3>2
  <2> QED BY <1>2, <2>1, <2>2
<1> QED BY <1>5, <1>7 DEF a, l, t

LEMMA FileSizes ==
    ASSUME FileConstantsOK
    PROVE  /\ BY2PG \in Nat \ {0} /\ NPages \in Nat \ {0} /\ MAXFILESIZE \in Nat
           /\ MAXFILESIZE = NPages * BY2PG
           /\ NONE # Own /\ NONE \notin Desc /\ NONE \notin Byte /\ NONE \notin Block
           /\ Own \notin Block /\ Byte \subseteq Nat \ {0}
BY DEF FileConstantsOK, MAXFILESIZE

\* The page of a position and the place on it.
LEMMA Where ==
    ASSUME FileConstantsOK, NEW k \in Pos
    PROVE  /\ k \div BY2PG \in Page /\ k % BY2PG \in 0..(BY2PG - 1)
           /\ (k \div BY2PG) * BY2PG + (k % BY2PG) = k
<1> DEFINE m == k \div BY2PG
           o == k % BY2PG
<1>1. k \in Nat /\ k < NPages * BY2PG
  BY FileSizes DEF Pos
<1>2. m \in Nat /\ o \in 0..(BY2PG - 1) /\ k = BY2PG * m + o
  BY <1>1, Divide, FileSizes
<1> HIDE DEF m, o
<1>3. BY2PG * m = m * BY2PG /\ m * BY2PG \in Nat
  BY <1>2, FileSizes
<1>4. m < NPages
  <2> SUFFICES ASSUME NPages <= m PROVE FALSE
    BY <1>2, FileSizes
  <2>1. PICK d \in Nat : m = NPages + d
    <3>1. m - NPages \in Nat /\ m = NPages + (m - NPages)
      BY <1>2, FileSizes
    <3> QED BY <3>1
  <2>2. m * BY2PG = NPages * BY2PG + d * BY2PG /\ d * BY2PG \in Nat /\ NPages * BY2PG \in Nat
    BY <2>1, FileSizes
  <2> QED BY <1>1, <1>2, <1>3, <2>2
<1>5. m \in Page
  BY <1>2, <1>4, FileSizes DEF Page
<1>6. m * BY2PG + o = k
  BY <1>2, <1>3
<1> QED BY <1>2, <1>5, <1>6 DEF m, o

\* Two places are the same position only if they are the same.
LEMMA WhereIs ==
    ASSUME FileConstantsOK, NEW m \in Page, NEW o \in 0..(BY2PG - 1)
    PROVE  /\ m * BY2PG + o \in Nat
           /\ (m * BY2PG + o) \div BY2PG = m /\ (m * BY2PG + o) % BY2PG = o
<1>1. m \in Nat /\ BY2PG \in Nat \ {0} /\ o \in Nat
  BY FileSizes DEF Page
<1>2. m * BY2PG \in Nat
  BY <1>1
<1> QED BY <1>1, <1>2, DivideIs

LEMMA PagesFacts ==
    ASSUME FileConstantsOK, NEW s \in Size
    PROVE  /\ Pages(s) \in 0..NPages
           /\ Pages(0) = 0
           /\ s # 0 => Pages(s) <= s \div BY2PG + 1
<1>0. s \in Nat /\ s <= NPages * BY2PG /\ BY2PG \in Nat \ {0} /\ BY2PG - 1 \in 0..(BY2PG - 1)
      /\ NPages \in Nat /\ NPages * BY2PG \in Nat
  BY FileSizes DEF Size
<1>1. Pages(s) \in Nat
  <2>1. s + BY2PG - 1 \in Nat
    BY <1>0
  <2> QED BY <1>0, <2>1, Divide DEF Pages
<1>2. Pages(s) <= NPages
  <2>1. s + BY2PG - 1 <= NPages * BY2PG + (BY2PG - 1)
    BY <1>0
  <2>2. s + BY2PG - 1 \in Nat /\ NPages * BY2PG + (BY2PG - 1) \in Nat
    BY <1>0
  <2>3. (NPages * BY2PG + (BY2PG - 1)) \div BY2PG = NPages
    BY <1>0, DivideIs
  <2>4. (s + BY2PG - 1) \div BY2PG <= (NPages * BY2PG + (BY2PG - 1)) \div BY2PG
    BY <1>0, <2>1, <2>2, DivideMonotone
  <2> QED BY <2>3, <2>4 DEF Pages
<1>3. Pages(0) = 0
  <2>1. (0 * BY2PG + (BY2PG - 1)) \div BY2PG = 0
    BY <1>0, DivideIs
  <2>2. 0 * BY2PG + (BY2PG - 1) = 0 + BY2PG - 1
    BY <1>0
  <2> QED BY <2>1, <2>2 DEF Pages
<1>4. Pages(s) <= s \div BY2PG + 1
  <2> DEFINE m == s \div BY2PG
             o == s % BY2PG
  <2>1. m \in Nat /\ o \in 0..(BY2PG - 1) /\ s = BY2PG * m + o
    BY <1>0, Divide
  <2> HIDE DEF m, o
  <2>2. ((m + 1) * BY2PG + o) \div BY2PG = m + 1
    <3>1. m + 1 \in Nat
      BY <2>1
    <3> QED BY <1>0, <2>1, <3>1, DivideIs
  <2>3. (m + 1) * BY2PG + o = s + BY2PG
    BY <1>0, <2>1
  <2>4. (s + BY2PG - 1) \div BY2PG <= (s + BY2PG) \div BY2PG
    <3>1. s + BY2PG - 1 \in Nat /\ s + BY2PG \in Nat /\ s + BY2PG - 1 <= s + BY2PG
      BY <1>0
    <3> QED BY <1>0, <3>1, DivideMonotone
  <2> QED BY <2>2, <2>3, <2>4 DEF Pages, m
<1> QED BY <1>0, <1>1, <1>2, <1>3, <1>4

\* A larger file has no fewer pages.
LEMMA PagesMonotone ==
    ASSUME FileConstantsOK, NEW s \in Size, NEW t \in Size, s <= t
    PROVE  Pages(s) <= Pages(t)
<1>1. s + BY2PG - 1 \in Nat /\ t + BY2PG - 1 \in Nat /\ s + BY2PG - 1 <= t + BY2PG - 1
  BY FileSizes DEF Size
<1> QED BY <1>1, FileSizes, DivideMonotone DEF Pages

\* A position inside the file is on one of its pages, and on one that a shorter file keeps.
LEMMA PageInside ==
    ASSUME FileConstantsOK, NEW s \in Size, NEW k \in Pos, k < s
    PROVE  /\ k \div BY2PG < Pages(s)
           /\ k \div BY2PG < s \div BY2PG + 1
<1> DEFINE m == k \div BY2PG
           o == k % BY2PG
<1>0. s \in Nat /\ k \in Nat /\ BY2PG \in Nat \ {0}
  BY FileSizes DEF Size, Pos
<1>1. m \in Nat /\ o \in 0..(BY2PG - 1) /\ k = BY2PG * m + o
  BY <1>0, Divide
<1>2. m < Pages(s)
  <2> HIDE DEF m, o
  <2>1. ((m + 1) * BY2PG + o) \div BY2PG = m + 1
    <3>1. m + 1 \in Nat
      BY <1>1
    <3> QED BY <1>0, <1>1, <3>1, DivideIs
  <2>2. (m + 1) * BY2PG + o = k + BY2PG
    BY <1>0, <1>1
  <2>3. (k + BY2PG) \div BY2PG <= (s + BY2PG - 1) \div BY2PG
    <3>1. k + BY2PG \in Nat /\ s + BY2PG - 1 \in Nat /\ k + BY2PG <= s + BY2PG - 1
      BY <1>0
    <3> QED BY <1>0, <3>1, DivideMonotone
  <2>4. Pages(s) \in Nat /\ m + 1 <= Pages(s)
    BY <2>1, <2>2, <2>3, PagesFacts DEF Pages
  <2> QED BY <1>1, <2>4
<1>3. m < s \div BY2PG + 1
  <2>1. m <= s \div BY2PG /\ s \div BY2PG \in Nat
    <3>1. k <= s
      BY <1>0
    <3>2. m <= s \div BY2PG
      BY <1>0, <3>1, DivideMonotone
    <3>3. s \div BY2PG \in Nat
      BY <1>0, Divide
    <3> QED BY <3>2, <3>3
  <2> QED BY <1>1, <2>1
<1> QED BY <1>2, <1>3

-----------------------------------------------------------------------------
(* Files: the invariant.                                                    *)

\* The first m pages of the file are mapped by q, and no other page.
Maps(q, m) == \A p \in Page : map[q][p] = IF p < m THEN ptr[p] ELSE NONE

\* Who has the file open has one descriptor, and is alone with it inside a call.
OneOpen ==
    /\ \A q, r \in Proc : desc[q] # NONE /\ desc[r] # NONE => desc[q] = desc[r]
    /\ \A q \in Proc : ~At(q, "user") =>
           desc[q] # NONE /\ \A r \in Proc : desc[r] # NONE => r = q

\* A block is at one place of the file, and every page of the file has one, except
\* those that ftruncate has still to map.
FileBlocks ==
    /\ \A p, r \in Page : p # r /\ ptr[p] # NONE => ptr[p] # ptr[r]
    /\ \A p \in Page : p < Pages(size) =>
           \/ ptr[p] # NONE
           \/ \E q \in Proc : At(q, "grow") /\ p >= pc[q].i

\* What a process has mapped, and which sizes are equal, at each place of its calls.
MapsFile(q) ==
    LET c == pc[q]
        s == f_size[desc[q]]
    IN  /\ c.at = "user" => size = s /\ Maps(q, Pages(s))
        /\ c.at = "open" => size = s /\ c.old = s /\ c.i <= Pages(s) /\ Maps(q, c.i)
        /\ c.at = "set_size" => size = c.old /\ s = c.size /\ Maps(q, Pages(c.old))
        /\ c.at = "grow" =>
               /\ size = c.size /\ s = c.size
               /\ c.i >= Pages(c.old) /\ (c.i <= Pages(c.old) \/ c.i <= Pages(c.size))
               /\ \A p \in Page : /\ p < c.i /\ p < Pages(c.size) => map[q][p] = ptr[p]
                                  /\ p >= c.i => map[q][p] = NONE

\* A write that has extended the file has its bytes to copy, up to the new end.
Extends(q) ==
    LET c == pc[q]
    IN  c.at \in {"set_size", "grow"} /\ c.n > 0 =>
            c.size > c.old /\ c.x \in Byte /\ fd_offset[desc[q]] + c.n = c.size

FileMapped ==
    /\ \A q \in Proc : desc[q] # NONE => MapsFile(q) /\ Extends(q)
    /\ \A q \in Proc : desc[q] = NONE => \A p \in Page : map[q][p] = NONE
    /\ \A q \in Proc : ~At(q, "undo") /\ \A p \in Page : map[q][p] # Own

FileInv == FileTypeOK /\ OneOpen /\ FileBlocks /\ FileMapped /\ WrittenInside

-----------------------------------------------------------------------------
(* Files: what the invariant says of one process.                           *)

Place == [at : {"user", "open", "set_size", "grow", "undo", "shrink"},
          i : 0..NPages, size : Size, old : Size, n : Size, x : Byte \cup {0}]

LEMMA FileTypes ==
    ASSUME FileTypeOK
    PROVE  /\ pc \in [Proc -> Place] /\ \A q \in Proc : pc[q] \in Place
           /\ \A q \in Proc : /\ pc[q].i \in 0..NPages /\ pc[q].size \in Size
                              /\ pc[q].old \in Size /\ pc[q].n \in Size
                              /\ pc[q].x \in Byte \cup {0}
           /\ \A q \in Proc : desc[q] # NONE => desc[q] \in Desc /\ f_size[desc[q]] \in Size
                                                /\ fd_offset[desc[q]] \in Size
           /\ \A p \in Page : ptr[p] # NONE => ptr[p] \in Block
BY DEF FileTypeOK, Place

LEMMA SizeFacts ==
    ASSUME FileConstantsOK
    PROVE  /\ 0 \in Size /\ \A s \in Size : s \in Nat /\ s <= MAXFILESIZE
           /\ \A s \in Nat : s <= MAXFILESIZE => s \in Size
           /\ User \in Place
<1>1. MAXFILESIZE \in Nat /\ NPages \in Nat
  BY FileSizes
<1>2. 0 \in Size /\ 0 \in 0..NPages
  BY <1>1 DEF Size
<1> QED BY <1>1, <1>2 DEF Size, User, Place

\* No one is inside a call while somebody is between calls with the file open.
LEMMA AllUser ==
    ASSUME FileInv, NEW q \in Proc, Idle(q)
    PROVE  /\ At(q, "user") /\ desc[q] # NONE /\ \A r \in Proc : At(r, "user")
BY DEF FileInv, OneOpen, Idle, At

LEMMA OnlyOne ==
    ASSUME FileInv, NEW q \in Proc, ~At(q, "user")
    PROVE  /\ desc[q] # NONE
           /\ \A r \in Proc : r # q => At(r, "user") /\ desc[r] = NONE
<1>1. desc[q] # NONE /\ \A r \in Proc : desc[r] # NONE => r = q
  BY DEF FileInv, OneOpen
<1> QED BY <1>1 DEF FileInv, OneOpen

\* Outside ftruncate's loop every page of the file has a block.
LEMMA HasBlocks ==
    ASSUME FileInv, NEW q \in Proc, desc[q] # NONE, ~At(q, "grow")
    PROVE  \A p \in Page : p < Pages(size) => ptr[p] # NONE /\ ptr[p] \in Block
<1>1. \A r \in Proc : ~At(r, "grow")
  <2> SUFFICES ASSUME NEW r \in Proc, At(r, "grow") PROVE FALSE
    OBVIOUS
  <2>1. ~At(r, "user")
    BY DEF At
  <2>2. q = r
    BY <2>1, OnlyOne
  <2> QED BY <2>2
<1> QED BY <1>1, FileTypes DEF FileInv, FileBlocks

\* When nobody has it open either.
LEMMA HasBlocksClosed ==
    ASSUME FileInv, \A q \in Proc : desc[q] = NONE
    PROVE  \A p \in Page : p < Pages(size) => ptr[p] # NONE
<1>1. \A r \in Proc : At(r, "user")
  BY OnlyOne
<1> QED BY <1>1 DEF FileInv, FileBlocks, At

LEMMA IdleMaps ==
    ASSUME FileInv, NEW q \in Proc, Idle(q)
    PROVE  /\ size = f_size[desc[q]] /\ Maps(q, Pages(size))
           /\ \A p \in Page : p < Pages(size) => ptr[p] # NONE /\ ptr[p] \in Block
<1>1. At(q, "user") /\ desc[q] # NONE
  BY AllUser
<1>2. MapsFile(q)
  BY <1>1 DEF FileInv, FileMapped
<1>3. ~At(q, "grow")
  BY <1>1 DEF At
<1> QED BY <1>1, <1>2, <1>3, HasBlocks DEF MapsFile, At

\* What a process reads is in the server's block.
LEMMA ReadsSound ==
    ASSUME FileConstantsOK, FileInv
    PROVE  ReadsWritten
<1> SUFFICES ASSUME NEW q \in Proc, Idle(q), NEW k \in Pos, k < f_size[desc[q]],
                    written[k] # NONE
             PROVE  View(q, k) = written[k]
  BY DEF ReadsWritten
<1> DEFINE m == k \div BY2PG
<1>1. size = f_size[desc[q]] /\ Maps(q, Pages(size)) /\ size \in Size
  BY IdleMaps DEF FileInv, FileTypeOK
<1>2. m \in Page /\ m < Pages(size)
  BY <1>1, Where, PageInside
<1>3. map[q][m] = ptr[m] /\ ptr[m] # NONE /\ ptr[m] \in Block
  BY <1>1, <1>2, IdleMaps DEF Maps
<1>4. map[q][m] # NONE /\ map[q][m] # Own
  BY <1>3, FileSizes
<1>5. mem[ptr[m]][k % BY2PG] = written[k]
  BY DEF FileInv, WrittenInside
<1> QED BY <1>3, <1>4, <1>5 DEF View

\* The invariant survives a step that changes neither the file nor what is in memory.
LEMMA FileSame ==
    ASSUME FileInv, UNCHANGED <<size, ptr, mem, written>>
    PROVE  WrittenInside'
BY DEF FileInv, WrittenInside

-----------------------------------------------------------------------------
(* Files: bytes are copied.                                                 *)

LEMMA CopySound ==
    ASSUME FileConstantsOK, FileInv, NEW q \in Proc, desc[q] # NONE,
           NEW off \in Nat, NEW n \in Nat \ {0}, NEW x \in Byte, off + n <= size,
           fd_offset[desc[q]] + n <= size,
           Maps(q, Pages(size)), \A p \in Page : p < Pages(size) => ptr[p] # NONE,
           Copy(q, off, n, x), size' = size
    PROVE  /\ map' = map /\ ptr' = ptr /\ desc' = desc
           /\ mem' \in [Block -> Contents] /\ own' \in [Proc -> [Page -> Contents]]
           /\ written' \in [Pos -> Byte \cup {NONE}] /\ fd_offset' \in [Desc -> Size]
           /\ WrittenInside'
<1> DEFINE In(p, o) == p * BY2PG + o \in off..(off + n - 1)
           new == {p \in PagesOf(off, n) : map[q][p] = NONE}
<1>1. FileTypeOK /\ size \in Size /\ size \in Nat /\ size <= MAXFILESIZE /\ MAXFILESIZE \in Nat
  BY SizeFacts, FileSizes DEF FileInv, FileTypeOK
<1>2. \A k \in off..(off + n - 1) : k \in Pos /\ k < size
  BY <1>1 DEF Pos
<1>3. \A p \in PagesOf(off, n) : map[q][p] = ptr[p] /\ ptr[p] # NONE
  <2> SUFFICES ASSUME NEW p \in Page, NEW k \in off..(off + n - 1), p = k \div BY2PG
               PROVE  map[q][p] = ptr[p] /\ ptr[p] # NONE
    BY DEF PagesOf
  <2>1. p < Pages(size)
    BY <1>1, <1>2, PageInside
  <2> QED BY <2>1 DEF Maps
<1>4. new = {}
  BY <1>3
<1>5. map' = [map EXCEPT ![q] = [p \in Page |-> map[q][p]]]
  BY <1>4 DEF Copy, Touch
<1>6. map' = map
  BY <1>1, <1>5 DEF FileTypeOK
<1>7. ptr' = ptr /\ desc' = desc
  BY DEF Copy
<1>8. mem' = [b \in Block |-> [o \in 0..(BY2PG - 1) |->
                 IF \E p \in Page : map[q][p] = b /\ In(p, o) THEN x ELSE mem[b][o]]]
  BY DEF Copy
<1>9. mem' \in [Block -> Contents]
  BY <1>1, <1>8 DEF FileTypeOK, Contents
<1>10. own' \in [Proc -> [Page -> Contents]]
  <2>1. own' = [own EXCEPT ![q] = [p \in Page |-> [o \in 0..(BY2PG - 1) |->
                     IF In(p, o) /\ map[q][p] \in {Own, NONE} THEN x
                     ELSE IF p \in new THEN 0 ELSE own[q][p][o]]]]
    BY DEF Copy
  <2>2. \A p \in Page, o \in 0..(BY2PG - 1) : own[q][p][o] \in Byte \cup {0}
    <3>1. own[q] \in [Page -> Contents]
      BY <1>1 DEF FileTypeOK
    <3>2. \A p \in Page : own[q][p] \in [0..(BY2PG - 1) -> Byte \cup {0}]
      BY <3>1 DEF Contents
    <3> QED BY <3>2
  <2> HIDE DEF new, In
  <2>3. [p \in Page |-> [o \in 0..(BY2PG - 1) |->
                     IF In(p, o) /\ map[q][p] \in {Own, NONE} THEN x
                     ELSE IF p \in new THEN 0 ELSE own[q][p][o]]] \in [Page -> Contents]
    BY <2>2 DEF Contents
  <2> QED BY <1>1, <2>1, <2>3 DEF FileTypeOK
<1>11. written' = [k \in Pos |-> IF k \in off..(off + n - 1) THEN x ELSE written[k]]
  BY DEF Copy
<1>12. written' \in [Pos -> Byte \cup {NONE}]
  BY <1>1, <1>11 DEF FileTypeOK
<1>13. fd_offset' \in [Desc -> Size]
  <2>1. desc[q] \in Desc /\ fd_offset[desc[q]] \in Size
    BY <1>1, FileTypes
  <2>2. fd_offset[desc[q]] + n \in Size
    <3> DEFINE z == fd_offset[desc[q]] + n
    <3>0. fd_offset[desc[q]] \in Nat
      BY <2>1, SizeFacts
    <3>1. z \in Nat /\ z <= MAXFILESIZE
      BY <1>1, <3>0
    <3> HIDE DEF z
    <3>2. z \in Size
      BY <3>1, SizeFacts
    <3> QED BY <3>2 DEF z
  <2>3. fd_offset' = [fd_offset EXCEPT ![desc[q]] = fd_offset[desc[q]] + n]
    BY DEF Copy
  <2> QED BY <1>1, <2>2, <2>3 DEF FileTypeOK
<1>14. WrittenInside'
  <2> SUFFICES ASSUME NEW k \in Pos, written'[k] # NONE
               PROVE  /\ k < size /\ ptr[k \div BY2PG] # NONE
                      /\ mem'[ptr[k \div BY2PG]][k % BY2PG] = written'[k]
    BY <1>7 DEF WrittenInside
  <2> DEFINE m == k \div BY2PG
             o == k % BY2PG
  <2>1. m \in Page /\ o \in 0..(BY2PG - 1) /\ m * BY2PG + o = k
    BY Where
  <2>2. CASE k \in off..(off + n - 1)
    <3>1. m < Pages(size) /\ k < size
      BY <1>1, <1>2, <2>2, PageInside
    <3>2. map[q][m] = ptr[m] /\ ptr[m] # NONE /\ ptr[m] \in Block
      BY <1>1, <2>1, <3>1, FileTypes DEF Maps
    <3>3. In(m, o)
      BY <2>1, <2>2
    <3> HIDE DEF m, o, In
    <3>4. mem'[ptr[m]][o] = x
      BY <1>8, <2>1, <3>2, <3>3
    <3>5. written'[k] = x
      BY <1>11, <2>2
    <3> QED BY <3>1, <3>2, <3>4, <3>5 DEF m, o
  <2>3. CASE k \notin off..(off + n - 1)
    <3>1. written'[k] = written[k]
      BY <1>11, <2>3
    <3>2. k < size /\ ptr[m] # NONE /\ mem[ptr[m]][o] = written[k]
      BY <3>1 DEF FileInv, WrittenInside
    <3>3. ptr[m] \in Block
      BY <1>1, <2>1, <3>2, FileTypes
    <3>4. ~ \E p \in Page : map[q][p] = ptr[m] /\ In(p, o)
      <4> SUFFICES ASSUME NEW p \in Page, map[q][p] = ptr[m], In(p, o) PROVE FALSE
        OBVIOUS
      <4>1. map[q][p] = ptr[p]
        BY <3>2 DEF Maps
      <4>2. p = m
        BY <2>1, <3>2, <4>1 DEF FileInv, FileBlocks
      <4>3. In(m, o) <=> k \in off..(off + n - 1)
        BY <2>1
      <4> QED BY <2>3, <4>2, <4>3
    <3> HIDE DEF m, o, In
    <3>5. mem'[ptr[m]][o] = mem[ptr[m]][o]
      BY <1>8, <2>1, <3>3, <3>4
    <3> QED BY <3>1, <3>2, <3>5 DEF m, o
  <2> QED BY <2>2, <2>3
<1> QED BY <1>6, <1>7, <1>9, <1>10, <1>12, <1>13, <1>14

-----------------------------------------------------------------------------
(* Files: each step keeps the invariant.                                    *)

LEMMA OpenKeeps ==
    ASSUME FileConstantsOK, FileInv, NEW q \in Proc, NEW d \in Desc, open(q, d),
           \A r \in Proc : desc[r] = NONE
    PROVE  FileInv'
<1>0. FileTypeOK /\ User \in Place /\ 0 \in Size /\ 0 \in 0..NPages /\ d # NONE
  BY SizeFacts, FileSizes DEF FileInv, open
<1>1. /\ size' = size /\ ptr' = ptr /\ mem' = mem /\ map' = map /\ own' = own
      /\ written' = written
  BY DEF open
<1>2. \A r \in Proc : desc'[r] = IF r = q THEN d ELSE NONE
  BY <1>0 DEF open, FileTypeOK
<1>3. f_size' = [f_size EXCEPT ![d] = size] /\ f_size'[d] = size
  BY <1>0 DEF open, FileTypeOK
<1>4. \A r \in Proc : At(r, "user")
  BY OnlyOne
<1> DEFINE c == [User EXCEPT !.at = "open", !.old = size]
<1>5. pc' = [pc EXCEPT ![q] = c]
  BY DEF open
<1>6. c \in Place /\ c.at = "open" /\ c.i = 0 /\ c.old = size
  BY <1>0 DEF Place, FileTypeOK, User
<1> HIDE DEF c
<1>7. \A r \in Proc : pc'[r] = IF r = q THEN c ELSE pc[r]
  BY <1>0, <1>5 DEF FileTypeOK
<1>8. FileTypeOK'
  <2>1. pc' \in [Proc -> Place]
    BY <1>0, <1>5, <1>6, FileTypes
  <2>2. desc' \in [Proc -> Desc \cup {NONE}] /\ f_size' \in [Desc -> Size]
        /\ fd_offset' \in [Desc -> Size]
    BY <1>0, <1>3 DEF open, FileTypeOK
  <2> QED BY <1>0, <1>1, <2>1, <2>2 DEF FileTypeOK, Place
<1>9. OneOpen'
  BY <1>0, <1>2, <1>4, <1>7 DEF OneOpen, At
<1>10. FileBlocks'
  BY <1>1, HasBlocksClosed DEF FileInv, FileBlocks
<1>11. FileMapped'
  <2>1. Pages(size) \in 0..NPages
    BY <1>0, PagesFacts DEF FileTypeOK
  <2>2. \A r \in Proc : desc'[r] # NONE => r = q /\ pc'[r] = c /\ desc'[r] = d
    BY <1>2, <1>7
  <2>3. Maps(q, 0)'
    <3>1. \A p \in Page : map[q][p] = NONE /\ ~(p < 0)
      BY FileSizes DEF FileInv, FileMapped, Page
    <3> QED BY <1>1, <3>1 DEF Maps
  <2>4. \A r \in Proc : desc'[r] # NONE => MapsFile(r)' /\ Extends(r)'
    <3> SUFFICES ASSUME NEW r \in Proc, desc'[r] # NONE PROVE MapsFile(r)' /\ Extends(r)'
      OBVIOUS
    <3>1. r = q /\ desc'[r] = d /\ pc'[r].at = "open" /\ pc'[r].i = 0 /\ pc'[r].old = size
      BY <1>6, <2>2
    <3>2. 0 <= Pages(size) /\ \A p \in Page : map'[q][p] = IF p < 0 THEN ptr'[p] ELSE NONE
      BY <2>1, <2>3 DEF Maps
    <3>3. MapsFile(r)'
      BY <1>1, <1>3, <3>1, <3>2 DEF MapsFile, Maps
    <3> QED BY <3>1, <3>3 DEF Extends
  <2>5. \A r \in Proc : ~At(r, "undo")'
    BY <1>4, <1>6, <1>7 DEF At
  <2> QED BY <1>1, <2>4, <2>5 DEF FileInv, FileMapped
<1> QED BY <1>1, <1>8, <1>9, <1>10, <1>11, FileSame DEF FileInv

\* What is enough after a step that leaves the processes but q as they are, when q has
\* the file open, and nobody is in ftruncate's loop.
LEMMA Settled ==
    ASSUME FileConstantsOK, FileInv, FileTypeOK', WrittenInside', NEW q \in Proc, desc[q] # NONE,
           ~At(q, "grow"), UNCHANGED <<size, ptr>>
    PROVE  FileBlocks'
BY HasBlocks DEF FileInv, FileBlocks

LEMMA OpenMapKeeps ==
    ASSUME FileConstantsOK, FileInv, NEW q \in Proc, open_map(q), "space" \in FileRules
    PROVE  FileInv'
<1> DEFINE m == pc[q].i
<1>0. FileTypeOK /\ At(q, "open") /\ m < Pages(pc[q].old) /\ ~At(q, "user") /\ ~At(q, "grow")
  BY DEF FileInv, open_map, At
<1>1. /\ size' = size /\ mem' = mem /\ desc' = desc /\ f_size' = f_size
      /\ fd_offset' = fd_offset /\ own' = own /\ written' = written
  BY DEF open_map
<1>2. desc[q] # NONE /\ \A r \in Proc : r # q => At(r, "user") /\ desc[r] = NONE
  BY <1>0, OnlyOne
<1>3. size = f_size[desc[q]] /\ pc[q].old = size /\ Maps(q, m) /\ size \in Size
  BY <1>0, <1>2 DEF FileInv, FileMapped, MapsFile, At, FileTypeOK
<1>4. m \in Page /\ m \in Nat /\ m + 1 \in 0..NPages /\ m + 1 <= Pages(size)
  BY <1>0, <1>3, PagesFacts, FileTypes, FileSizes DEF Page
<1>5. ptr[m] # NONE /\ ptr[m] \in Block
  BY <1>0, <1>2, <1>3, <1>4, HasBlocks
<1>6. fsipc_map(q, m) /\ pc' = [pc EXCEPT ![q].i = @ + 1]
  BY DEF open_map, fsipc_map_fails
<1>7. ptr' = [ptr EXCEPT ![m] = ptr[m]] /\ map' = [map EXCEPT ![q][m] = ptr[m]]
  BY <1>5, <1>6 DEF fsipc_map
<1>8. ptr' = ptr
  BY <1>0, <1>7 DEF FileTypeOK
<1> HIDE DEF m
<1>9. /\ map' \in [Proc -> [Page -> Block \cup {Own, NONE}]]
      /\ \A r \in Proc, p \in Page : map'[r][p] = IF r = q /\ p = m THEN ptr[m] ELSE map[r][p]
  BY <1>0, <1>4, <1>5, <1>7 DEF FileTypeOK
<1>10. /\ pc' \in [Proc -> Place] /\ \A r \in Proc : r # q => pc'[r] = pc[r]
       /\ pc'[q].at = "open" /\ pc'[q].old = pc[q].old /\ pc'[q].i = m + 1
  <2> DEFINE c == [pc[q] EXCEPT !.i = m + 1]
  <2>1. pc[q] \in Place /\ pc \in [Proc -> Place]
    BY <1>0, FileTypes
  <2>2. c \in Place /\ c.at = pc[q].at /\ c.old = pc[q].old /\ c.i = m + 1
    BY <1>4, <2>1 DEF Place
  <2>3. pc' = [pc EXCEPT ![q] = c]
    BY <1>6, <2>1 DEF m
  <2> HIDE DEF c
  <2> QED BY <1>0, <2>1, <2>2, <2>3 DEF At
<1>11. FileTypeOK'
  BY <1>0, <1>1, <1>8, <1>9, <1>10 DEF FileTypeOK, Place
<1>12. OneOpen'
  BY <1>1, <1>2, <1>10 DEF FileInv, OneOpen, At
<1>13. WrittenInside'
  BY <1>1, <1>8, FileSame
<1>14. FileBlocks'
  BY <1>0, <1>1, <1>2, <1>8, <1>11, <1>13, Settled
<1>15. FileMapped'
  <2>1. \A p \in Page : map'[q][p] = IF p < m + 1 THEN ptr'[p] ELSE NONE
    <3> SUFFICES ASSUME NEW p \in Page
                 PROVE  map'[q][p] = IF p < m + 1 THEN ptr[p] ELSE NONE
      BY <1>8
    <3>1. p \in Nat
      BY FileSizes DEF Page
    <3>2. map[q][p] = IF p < m THEN ptr[p] ELSE NONE
      BY <1>3 DEF Maps
    <3> QED BY <1>4, <1>9, <3>1, <3>2
  <2>2. MapsFile(q)'
    BY <1>1, <1>3, <1>4, <1>10, <2>1 DEF MapsFile, Maps
  <2>3. Extends(q)'
    BY <1>10 DEF Extends
  <2>4. \A r \in Proc : desc'[r] # NONE => r = q
    BY <1>1, <1>2
  <2>5. \A r \in Proc, p \in Page : map'[r][p] # Own /\ (desc'[r] = NONE => map'[r][p] = NONE)
    BY <1>1, <1>2, <1>5, <1>9, FileSizes DEF FileInv, FileMapped
  <2>6. \A r \in Proc : ~At(r, "undo")'
    BY <1>10 DEF FileInv, FileMapped, At
  <2> QED BY <2>2, <2>3, <2>4, <2>5, <2>6 DEF FileMapped
<1> QED BY <1>11, <1>12, <1>13, <1>14, <1>15 DEF FileInv

LEMMA OpenEndKeeps ==
    ASSUME FileConstantsOK, FileInv, NEW q \in Proc, NEW append \in BOOLEAN, open_end(q, append)
    PROVE  FileInv'
<1>0. FileTypeOK /\ At(q, "open") /\ ~At(q, "user") /\ ~At(q, "grow")
      /\ pc[q].i >= Pages(pc[q].old)
  BY DEF FileInv, open_end, At
<1>1. /\ size' = size /\ ptr' = ptr /\ mem' = mem /\ desc' = desc /\ f_size' = f_size
      /\ map' = map /\ own' = own /\ written' = written /\ pc' = [pc EXCEPT ![q] = User]
  BY DEF open_end
<1>2. desc[q] # NONE /\ \A r \in Proc : r # q => At(r, "user") /\ desc[r] = NONE
  BY <1>0, OnlyOne
<1>3. /\ size = f_size[desc[q]] /\ pc[q].old = size /\ Maps(q, pc[q].i) /\ size \in Size
      /\ pc[q].i <= Pages(size)
  BY <1>0, <1>2 DEF FileInv, FileMapped, MapsFile, At, FileTypeOK
<1>4. pc[q].i = Pages(size)
  BY <1>0, <1>3, PagesFacts, FileTypes
<1>5. fd_offset' \in [Desc -> Size]
  <2>1. desc[q] \in Desc /\ f_size[desc[q]] \in Size
    BY <1>0, <1>2, FileTypes
  <2>2. \A z \in 0..f_size[desc[q]] : z \in Size
    <3>1. f_size[desc[q]] \in Nat /\ f_size[desc[q]] <= MAXFILESIZE /\ MAXFILESIZE \in Nat
      BY <2>1, SizeFacts, FileSizes
    <3> QED BY <3>1 DEF Size
  <2> QED BY <1>0, <2>1, <2>2 DEF open_end, FileTypeOK
<1>6. pc' \in [Proc -> Place] /\ \A r \in Proc : pc'[r] = IF r = q THEN User ELSE pc[r]
  BY <1>0, <1>1, SizeFacts, FileTypes
<1>7. FileTypeOK'
  BY <1>0, <1>1, <1>5, <1>6 DEF FileTypeOK, Place
<1>8. User.at = "user"
  BY DEF User
<1>9. OneOpen'
  BY <1>1, <1>2, <1>6, <1>8 DEF FileInv, OneOpen, At
<1>10. WrittenInside'
  BY <1>1, FileSame
<1>11. FileBlocks'
  BY <1>0, <1>1, <1>2, <1>7, <1>10, Settled
<1>12. FileMapped'
  <2>1. MapsFile(q)'
    BY <1>1, <1>3, <1>4, <1>6, <1>8 DEF MapsFile, Maps
  <2>2. Extends(q)'
    BY <1>6, <1>8 DEF Extends
  <2>3. \A r \in Proc : desc'[r] # NONE => r = q
    BY <1>1, <1>2
  <2>4. \A r \in Proc : ~At(r, "undo")'
    BY <1>6, <1>8 DEF FileInv, FileMapped, At
  <2> QED BY <1>1, <2>1, <2>2, <2>3, <2>4 DEF FileInv, FileMapped
<1> QED BY <1>7, <1>9, <1>10, <1>11, <1>12 DEF FileInv

\* A step between calls: everyone is in user code, and stays there.
LEMMA BetweenCalls ==
    ASSUME FileConstantsOK, FileInv, NEW q \in Proc, Idle(q), FileTypeOK', WrittenInside',
           UNCHANGED <<size, ptr, pc>>,
           \A r, w \in Proc : desc'[r] # NONE /\ desc'[w] # NONE => desc'[r] = desc'[w],
           \A r \in Proc : desc'[r] # NONE => size = f_size'[desc'[r]] /\ Maps(r, Pages(size))',
           \A r \in Proc : desc'[r] = NONE => \A p \in Page : map'[r][p] = NONE
    PROVE  FileInv'
<1>1. \A r \in Proc : At(r, "user")
  BY AllUser
<1>2. OneOpen'
  BY <1>1 DEF OneOpen, At
<1>3. FileBlocks'
  BY IdleMaps DEF FileInv, FileBlocks
<1>4. \A r \in Proc, p \in Page : map'[r][p] # Own
  <2>1. \A p \in Page : ptr[p] # Own
    BY FileSizes DEF FileInv, FileTypeOK
  <2> QED BY <2>1, FileSizes DEF Maps
<1>5. \A r \in Proc : desc'[r] # NONE => MapsFile(r)' /\ Extends(r)'
  <2> SUFFICES ASSUME NEW r \in Proc, desc'[r] # NONE PROVE MapsFile(r)' /\ Extends(r)'
    OBVIOUS
  <2>1. pc'[r].at = "user"
    BY <1>1 DEF At
  <2>2. size' = f_size'[desc'[r]] /\ Maps(r, Pages(f_size[desc[r]]))'
    BY DEF Maps
  <2> QED BY <2>1, <2>2 DEF MapsFile, Extends
<1>6. \A r \in Proc : ~At(r, "undo")'
  BY DEF FileInv, FileMapped, At
<1>7. FileMapped'
  BY <1>4, <1>5, <1>6 DEF FileMapped
<1> QED BY <1>2, <1>3, <1>7 DEF FileInv

LEMMA ForkKeeps ==
    ASSUME FileConstantsOK, FileInv, NEW q \in Proc, NEW c \in Proc, fork(q, c)
    PROVE  FileInv'
<1>0. FileTypeOK /\ Idle(q) /\ desc[q] # NONE /\ \A r, w \in Proc :
          desc[r] # NONE /\ desc[w] # NONE => desc[r] = desc[w]
  BY DEF fork, Idle, FileInv, OneOpen
<1>1. /\ UNCHANGED <<size, ptr, mem, f_size, fd_offset, pc, written>>
      /\ desc' = [desc EXCEPT ![c] = desc[q]] /\ map' = [map EXCEPT ![c] = map[q]]
      /\ own' = [own EXCEPT ![c] = own[q]]
  BY DEF fork
<1>2. FileTypeOK'
  BY <1>0, <1>1 DEF FileTypeOK
<1>3. \A r \in Proc : desc'[r] = IF r = c THEN desc[q] ELSE desc[r]
  BY <1>0, <1>1 DEF FileTypeOK
<1>4. \A r \in Proc : map'[r] = IF r = c THEN map[q] ELSE map[r]
  BY <1>0, <1>1 DEF FileTypeOK
<1>5. \A r \in Proc : desc[r] # NONE => size = f_size[desc[r]] /\ Maps(r, Pages(size))
  <2> SUFFICES ASSUME NEW r \in Proc, desc[r] # NONE
               PROVE  size = f_size[desc[r]] /\ Maps(r, Pages(size))
    OBVIOUS
  <2>1. Idle(r)
    BY <1>0, AllUser DEF Idle
  <2> QED BY <2>1, IdleMaps
<1>6. \A r \in Proc : desc'[r] # NONE => size = f_size'[desc'[r]] /\ Maps(r, Pages(size))'
  <2> SUFFICES ASSUME NEW r \in Proc, desc'[r] # NONE
               PROVE  size = f_size'[desc'[r]] /\ Maps(r, Pages(size))'
    OBVIOUS
  <2>1. PICK w \in Proc : desc[w] # NONE /\ desc'[r] = desc[w] /\ map'[r] = map[w]
    BY <1>0, <1>3, <1>4
  <2> QED BY <1>1, <1>5, <2>1 DEF Maps
<1>7. \A r \in Proc : desc'[r] = NONE => \A p \in Page : map'[r][p] = NONE
  BY <1>0, <1>3, <1>4 DEF FileInv, FileMapped
<1>8. \A r, w \in Proc : desc'[r] # NONE /\ desc'[w] # NONE => desc'[r] = desc'[w]
  BY <1>0, <1>3
<1>9. WrittenInside'
  BY <1>1, FileSame
<1> QED BY <1>0, <1>1, <1>2, <1>6, <1>7, <1>8, <1>9, BetweenCalls

LEMMA CloseKeeps ==
    ASSUME FileConstantsOK, FileInv, NEW q \in Proc, close(q)
    PROVE  FileInv'
<1>0. FileTypeOK /\ Idle(q) /\ \A r, w \in Proc :
          desc[r] # NONE /\ desc[w] # NONE => desc[r] = desc[w]
  BY DEF close, FileInv, OneOpen
<1> DEFINE none == [p \in Page |-> IF p < Pages(f_size[desc[q]]) THEN NONE ELSE map[q][p]]
<1>1. /\ UNCHANGED <<size, ptr, mem, f_size, fd_offset, own, pc, written>>
      /\ desc' = [desc EXCEPT ![q] = NONE] /\ map' = [map EXCEPT ![q] = none]
  BY DEF close
<1>2. \A p \in Page : none[p] = NONE
  BY <1>0, IdleMaps DEF Maps
<1>3. none \in [Page -> Block \cup {Own, NONE}]
  BY <1>0 DEF FileTypeOK
<1> HIDE DEF none
<1>4. FileTypeOK'
  BY <1>0, <1>1, <1>3 DEF FileTypeOK
<1>5. \A r \in Proc : /\ desc'[r] = IF r = q THEN NONE ELSE desc[r]
                      /\ map'[r] = IF r = q THEN none ELSE map[r]
  BY <1>0, <1>1 DEF FileTypeOK
<1>6. \A r \in Proc : desc'[r] # NONE => size = f_size'[desc'[r]] /\ Maps(r, Pages(size))'
  <2> SUFFICES ASSUME NEW r \in Proc, desc'[r] # NONE
               PROVE  size = f_size'[desc'[r]] /\ Maps(r, Pages(size))'
    OBVIOUS
  <2>1. r # q /\ desc[r] # NONE /\ desc'[r] = desc[r] /\ map'[r] = map[r]
    BY <1>5
  <2>2. Idle(r)
    BY <1>0, <2>1, AllUser DEF Idle
  <2> QED BY <1>1, <2>1, <2>2, IdleMaps DEF Maps
<1>7. \A r \in Proc : desc'[r] = NONE => \A p \in Page : map'[r][p] = NONE
  BY <1>2, <1>5 DEF FileInv, FileMapped
<1>8. \A r, w \in Proc : desc'[r] # NONE /\ desc'[w] # NONE => desc'[r] = desc'[w]
  BY <1>0, <1>5
<1>9. WrittenInside'
  BY <1>1, FileSame
<1> QED BY <1>0, <1>1, <1>4, <1>6, <1>7, <1>8, <1>9, BetweenCalls

\* A call that neither opens nor closes, nor changes a size or what is mapped.
LEMMA PlainCall ==
    ASSUME FileConstantsOK, FileInv, NEW q \in Proc, Idle(q), FileTypeOK', WrittenInside',
           UNCHANGED <<size, ptr, desc, f_size, map, pc>>
    PROVE  FileInv'
<1>1. \A r \in Proc : desc[r] # NONE => size = f_size[desc[r]] /\ Maps(r, Pages(size))
  <2> SUFFICES ASSUME NEW r \in Proc, desc[r] # NONE
               PROVE  size = f_size[desc[r]] /\ Maps(r, Pages(size))
    OBVIOUS
  <2>1. Idle(r)
    BY AllUser DEF Idle
  <2> QED BY <2>1, IdleMaps
<1>2. \A r \in Proc : desc'[r] # NONE => size = f_size'[desc'[r]] /\ Maps(r, Pages(size))'
  BY <1>1 DEF Maps
<1>3. \A r, w \in Proc : desc'[r] # NONE /\ desc'[w] # NONE => desc'[r] = desc'[w]
  BY DEF FileInv, OneOpen
<1>4. \A r \in Proc : desc'[r] = NONE => \A p \in Page : map'[r][p] = NONE
  BY DEF FileInv, FileMapped
<1> QED BY <1>2, <1>3, <1>4, BetweenCalls

LEMMA SeekKeeps ==
    ASSUME FileConstantsOK, FileInv, NEW q \in Proc, NEW s \in Size, seek(q, s)
    PROVE  FileInv'
<1>1. UNCHANGED <<size, ptr, mem, desc, f_size, map, own, pc, written>> /\ Idle(q)
  BY DEF seek
<1>2. fd_offset' \in [Desc -> Size]
  BY DEF seek, FileInv, FileTypeOK
<1>3. FileTypeOK'
  BY <1>1, <1>2 DEF FileInv, FileTypeOK
<1> QED BY <1>1, <1>3, FileSame, PlainCall

LEMMA ReadKeeps ==
    ASSUME FileConstantsOK, FileInv, NEW q \in Proc, NEW n \in 1..BY2PG, read(q, n)
    PROVE  FileInv'
<1> DEFINE off == fd_offset[desc[q]]
           end == f_size[desc[q]]
           m == IF off > end THEN 0 ELSE IF off + n > end THEN end - off ELSE n
           new == {p \in PagesOf(off, m) : map[q][p] = NONE}
<1>0. FileTypeOK /\ Idle(q) /\ desc[q] # NONE
  BY AllUser DEF read, FileInv
<1>1. UNCHANGED <<size, ptr, mem, desc, f_size, pc, written>>
  BY DEF read
<1>2. /\ off \in Size /\ end \in Size /\ desc[q] \in Desc /\ size = end
      /\ off \in Nat /\ end \in Nat /\ end <= MAXFILESIZE /\ MAXFILESIZE \in Nat /\ n \in Nat
  <2>1. off \in Size /\ end \in Size /\ desc[q] \in Desc
    BY <1>0, FileTypes
  <2> QED BY <1>0, <2>1, IdleMaps, SizeFacts, FileSizes
<1>3. m \in Nat /\ (m > 0 => off + m <= end) /\ off + m \in Size
  <2> HIDE DEF off, end
  <2>1. m \in Nat /\ (m > 0 => off + m <= end) /\ (m = 0 => off + m = off)
    BY <1>2
  <2> HIDE DEF m
  <2>2. CASE m = 0
    BY <1>2, <2>1, <2>2
  <2>3. CASE m > 0
    <3>1. off + m \in Nat /\ off + m <= MAXFILESIZE
      BY <1>2, <2>1, <2>3
    <3> QED BY <2>1, <3>1, SizeFacts
  <2> QED BY <2>1, <2>2, <2>3
<1>4. Touch(q, new) /\ fd_offset' = [fd_offset EXCEPT ![desc[q]] = off + m]
      /\ own' = [own EXCEPT ![q] = [p \in Page |-> IF p \in new THEN Zeros ELSE own[q][p]]]
  BY DEF read
<1> HIDE DEF off, end, m
<1>5. new = {}
  <2> SUFFICES ASSUME NEW p \in Page, NEW k \in off..(off + m - 1), p = k \div BY2PG
               PROVE  map[q][p] # NONE
    BY DEF PagesOf
  <2>1. k \in Pos /\ k < end
    BY <1>2, <1>3 DEF Pos
  <2>2. p < Pages(end)
    BY <1>2, <2>1, PageInside
  <2> QED BY <1>0, <1>2, <2>2, IdleMaps DEF Maps
<1>6. map' = map
  <2>1. map' = [map EXCEPT ![q] = [p \in Page |-> map[q][p]]]
    BY <1>4, <1>5 DEF Touch
  <2> QED BY <1>0, <2>1 DEF FileTypeOK
<1>7. own' = own
  <2>1. own' = [own EXCEPT ![q] = [p \in Page |-> own[q][p]]]
    BY <1>4, <1>5
  <2> QED BY <1>0, <2>1 DEF FileTypeOK
<1>8. fd_offset' \in [Desc -> Size]
  BY <1>0, <1>2, <1>3, <1>4 DEF FileTypeOK
<1>9. FileTypeOK'
  BY <1>0, <1>1, <1>6, <1>7, <1>8 DEF FileTypeOK
<1> QED BY <1>0, <1>1, <1>6, <1>9, FileSame, PlainCall

LEMMA WriteKeeps ==
    ASSUME FileConstantsOK, FileInv, NEW q \in Proc, NEW n \in 1..BY2PG, NEW x \in Byte,
           Idle(q), fd_offset[desc[q]] + n <= f_size[desc[q]],
           Copy(q, fd_offset[desc[q]], n, x), UNCHANGED <<size, f_size, pc>>
    PROVE  FileInv'
<1>0. FileTypeOK /\ desc[q] # NONE
  BY AllUser DEF FileInv
<1>1. /\ size = f_size[desc[q]] /\ Maps(q, Pages(size))
      /\ \A p \in Page : p < Pages(size) => ptr[p] # NONE
  BY IdleMaps
<1>2. fd_offset[desc[q]] \in Nat /\ n \in Nat \ {0}
  BY <1>0, FileTypes, SizeFacts
<1>3. /\ map' = map /\ ptr' = ptr /\ desc' = desc
      /\ mem' \in [Block -> Contents] /\ own' \in [Proc -> [Page -> Contents]]
      /\ written' \in [Pos -> Byte \cup {NONE}] /\ fd_offset' \in [Desc -> Size]
      /\ WrittenInside'
  BY <1>0, <1>1, <1>2, CopySound
<1>4. FileTypeOK'
  BY <1>0, <1>3 DEF FileTypeOK
<1> QED BY <1>3, <1>4, PlainCall

LEMMA TruncateKeeps ==
    ASSUME FileConstantsOK, FileInv, NEW q \in Proc, NEW s \in Size, NEW n \in Size,
           NEW x \in Byte \cup {0}, Idle(q), Truncate(q, s, n, x), Users(desc[q]) = {q},
           n > 0 => s > f_size[desc[q]] /\ x \in Byte /\ fd_offset[desc[q]] + n = s
    PROVE  FileInv'
<1>0. FileTypeOK /\ desc[q] # NONE /\ \A r \in Proc : At(r, "user")
  BY AllUser DEF FileInv
<1>1. /\ UNCHANGED <<size, ptr, mem, desc, fd_offset, map, own, written>>
      /\ f_size' = [f_size EXCEPT ![desc[q]] = s]
  BY DEF Truncate
<1>2. /\ size = f_size[desc[q]] /\ Maps(q, Pages(size)) /\ size \in Size /\ desc[q] \in Desc
      /\ \A p \in Page : p < Pages(size) => ptr[p] # NONE
  BY <1>0, IdleMaps, FileTypes DEF FileTypeOK
<1>3. \A r \in Proc : desc[r] # NONE => r = q
  BY <1>0 DEF Users, FileInv, OneOpen
<1> DEFINE c == [User EXCEPT !.at = "set_size", !.size = s, !.old = f_size[desc[q]],
                             !.n = n, !.x = x]
<1>4. pc' = [pc EXCEPT ![q] = c]
  BY DEF Truncate
<1>5. /\ c \in Place /\ c.at = "set_size" /\ c.size = s /\ c.old = f_size[desc[q]]
      /\ c.n = n /\ c.x = x
  <2>1. f_size[desc[q]] \in Size /\ 0 \in 0..NPages
    BY <1>2, FileSizes
  <2> QED BY <2>1 DEF User, Place
<1> HIDE DEF c
<1>6. pc' \in [Proc -> Place] /\ \A r \in Proc : pc'[r] = IF r = q THEN c ELSE pc[r]
  BY <1>0, <1>4, <1>5, FileTypes
<1>7. f_size' \in [Desc -> Size] /\ f_size'[desc[q]] = s
  BY <1>0, <1>1, <1>2 DEF FileTypeOK
<1>8. FileTypeOK'
  BY <1>0, <1>1, <1>6, <1>7 DEF FileTypeOK, Place
<1>9. OneOpen'
  BY <1>0, <1>1, <1>3, <1>6 DEF FileInv, OneOpen, At
<1>10. FileBlocks'
  BY <1>1, <1>2 DEF FileInv, FileBlocks
<1>11. FileMapped'
  <2>1. /\ pc'[q].at = "set_size" /\ pc'[q].size = s /\ pc'[q].old = size /\ pc'[q].n = n
        /\ pc'[q].x = x
    BY <1>2, <1>5, <1>6
  <2>2. MapsFile(q)'
    BY <1>1, <1>2, <1>7, <2>1 DEF MapsFile, Maps
  <2>3. Extends(q)'
    BY <1>1, <1>2, <2>1 DEF Extends
  <2>4. \A r \in Proc : ~At(r, "undo")'
    BY <1>0, <1>6, <2>1 DEF At
  <2> QED BY <1>1, <1>3, <2>2, <2>3, <2>4 DEF FileInv, FileMapped
<1> QED BY <1>1, <1>8, <1>9, <1>10, <1>11, FileSame DEF FileInv

\* What the invariant says of the process that is in ftruncate.
LEMMA InTruncate ==
    ASSUME FileConstantsOK, FileInv, NEW q \in Proc, At(q, "set_size") \/ At(q, "grow")
    PROVE  /\ desc[q] # NONE /\ desc[q] \in Desc /\ MapsFile(q) /\ Extends(q)
           /\ \A r \in Proc : r # q => At(r, "user") /\ desc[r] = NONE
           /\ pc[q] \in Place /\ pc \in [Proc -> Place]
           /\ pc[q].size \in Size /\ pc[q].old \in Size /\ pc[q].i \in 0..NPages
           /\ Pages(pc[q].size) \in 0..NPages /\ Pages(pc[q].old) \in 0..NPages
<1>1. ~At(q, "user") /\ FileTypeOK
  BY DEF At, FileInv
<1>2. desc[q] # NONE /\ \A r \in Proc : r # q => At(r, "user") /\ desc[r] = NONE
  BY <1>1, OnlyOne
<1>3. MapsFile(q) /\ Extends(q)
  BY <1>2 DEF FileInv, FileMapped
<1> QED BY <1>1, <1>2, <1>3, FileTypes, PagesFacts

LEMMA PageCount ==
    ASSUME FileConstantsOK, NEW s \in Size
    PROVE  s \div BY2PG \in Nat
<1>1. s \in Nat /\ BY2PG \in Nat \ {0}
  BY SizeFacts, FileSizes
<1> QED BY <1>1, Divide

LEMMA SetSizeKeeps ==
    ASSUME FileConstantsOK, FileInv, NEW q \in Proc, trunc_set_size(q)
    PROVE  FileInv'
<1> DEFINE s == pc[q].size
           old == pc[q].old
<1>0. FileTypeOK /\ At(q, "set_size") /\ ~At(q, "grow") /\ ~At(q, "user")
  BY DEF trunc_set_size, FileInv, At
<1>1. /\ UNCHANGED <<mem, desc, f_size, fd_offset, map, own>> /\ file_set_size(s)
      /\ pc' = [pc EXCEPT ![q].at = "grow", ![q].i = Pages(old)]
  BY DEF trunc_set_size
<1>2. /\ desc[q] # NONE /\ desc[q] \in Desc
      /\ \A r \in Proc : r # q => At(r, "user") /\ desc[r] = NONE
      /\ pc[q] \in Place /\ pc \in [Proc -> Place]
      /\ s \in Size /\ old \in Size /\ pc[q].i \in 0..NPages
      /\ Pages(s) \in 0..NPages /\ Pages(old) \in 0..NPages
  BY <1>0, InTruncate
<1>3. size = old /\ f_size[desc[q]] = s /\ Maps(q, Pages(old)) /\ Extends(q)
  BY <1>0, InTruncate DEF MapsFile, At
<1>4. size' = s
  BY <1>1 DEF file_set_size
<1>5. \A p \in Page : ptr'[p] = ptr[p] \/ ptr'[p] = NONE
  BY <1>1 DEF file_set_size
<1>6. \A p \in Page : p < s \div BY2PG + 1 /\ s # 0 => ptr'[p] = ptr[p]
  <2> SUFFICES ASSUME NEW p \in Page, p < s \div BY2PG + 1, s # 0 PROVE ptr'[p] = ptr[p]
    OBVIOUS
  <2>1. s \div BY2PG \in Nat /\ p \in Nat
    BY <1>2, PageCount, FileSizes DEF Page
  <2>2. ~(p >= (IF s = 0 THEN 0 ELSE s \div BY2PG + 1))
    BY <2>1
  <2> HIDE DEF s
  <2> QED BY <1>1, <2>2 DEF file_set_size
<1>7. \A p \in Page : p < Pages(s) => ptr'[p] = ptr[p]
  <2> SUFFICES ASSUME NEW p \in Page, p < Pages(s) PROVE ptr'[p] = ptr[p]
    OBVIOUS
  <2>1. p \in Nat
    BY FileSizes DEF Page
  <2>2. s # 0
    BY <1>2, <2>1, PagesFacts
  <2>3. Pages(s) <= s \div BY2PG + 1 /\ Pages(s) \in Nat /\ s \div BY2PG \in Nat
    BY <1>2, <2>2, PagesFacts, PageCount
  <2>4. p < s \div BY2PG + 1
    BY <2>1, <2>3
  <2> QED BY <1>6, <2>2, <2>4
<1>8. \A p \in Page : p < Pages(old) => ptr[p] # NONE
  BY <1>0, <1>2, <1>3, HasBlocks
<1> DEFINE c == [pc[q] EXCEPT !.at = "grow", !.i = Pages(old)]
<1>9. pc' = [pc EXCEPT ![q] = c]
  BY <1>1, <1>2
<1>10. /\ c \in Place /\ c.at = "grow" /\ c.i = Pages(old) /\ c.size = s /\ c.old = old
       /\ c.n = pc[q].n /\ c.x = pc[q].x
  BY <1>2 DEF Place
<1> HIDE DEF c
<1>11. pc' \in [Proc -> Place] /\ \A r \in Proc : pc'[r] = IF r = q THEN c ELSE pc[r]
  BY <1>2, <1>9, <1>10
<1>12. /\ pc'[q].at = "grow" /\ pc'[q].i = Pages(old) /\ pc'[q].size = s /\ pc'[q].old = old
       /\ pc'[q].n = pc[q].n /\ pc'[q].x = pc[q].x
  BY <1>10, <1>11
<1>13. written' = [k \in Pos |-> IF k >= s THEN NONE ELSE written[k]]
  BY <1>1 DEF file_set_size
<1>14. FileTypeOK'
  <2>1. ptr' \in [Page -> Block \cup {NONE}]
    BY <1>0, <1>1 DEF FileTypeOK, file_set_size
  <2>2. written' \in [Pos -> Byte \cup {NONE}]
    BY <1>0, <1>13 DEF FileTypeOK
  <2>3. size' \in Size
    BY <1>2, <1>4
  <2> HIDE DEF s, old
  <2> QED BY <1>0, <1>1, <1>11, <2>1, <2>2, <2>3 DEF FileTypeOK, Place
<1>15. OneOpen'
  BY <1>1, <1>2, <1>11 DEF FileInv, OneOpen, At
<1>16. FileBlocks'
  <2>1. \A p, r \in Page : p # r /\ ptr'[p] # NONE => ptr'[p] # ptr'[r]
    BY <1>5 DEF FileInv, FileBlocks
  <2>2. \A p \in Page : p < Pages(s) => ptr'[p] # NONE \/ p >= pc'[q].i
    <3> SUFFICES ASSUME NEW p \in Page, p < Pages(s) PROVE ptr'[p] # NONE \/ p >= pc'[q].i
      OBVIOUS
    <3>1. p \in Nat
      BY FileSizes DEF Page
    <3> QED BY <1>2, <1>7, <1>8, <1>12, <3>1
  <2> QED BY <1>4, <1>12, <2>1, <2>2 DEF FileBlocks, At
<1>17. WrittenInside'
  <2> SUFFICES ASSUME NEW k \in Pos, written'[k] # NONE
               PROVE  /\ k < s /\ ptr'[k \div BY2PG] # NONE
                      /\ mem[ptr'[k \div BY2PG]][k % BY2PG] = written'[k]
    BY <1>1, <1>4 DEF WrittenInside
  <2>1. ~(k >= s) /\ written'[k] = written[k]
    BY <1>13
  <2>2. k \in Nat /\ s \in Nat
    BY <1>2, SizeFacts, FileSizes DEF Pos
  <2>3. k < s /\ s # 0
    BY <2>1, <2>2
  <2>4. k \div BY2PG \in Page /\ k \div BY2PG < s \div BY2PG + 1
    BY <1>2, <2>3, Where, PageInside
  <2>5. ptr'[k \div BY2PG] = ptr[k \div BY2PG]
    BY <1>6, <2>3, <2>4
  <2> QED BY <2>1, <2>3, <2>5 DEF FileInv, WrittenInside
<1>18. FileMapped'
  <2>1. \A p \in Page : /\ p < Pages(old) /\ p < Pages(s) => map[q][p] = ptr'[p]
                        /\ p >= Pages(old) => map[q][p] = NONE
    <3> SUFFICES ASSUME NEW p \in Page
                 PROVE  /\ p < Pages(old) /\ p < Pages(s) => map[q][p] = ptr'[p]
                        /\ p >= Pages(old) => map[q][p] = NONE
      OBVIOUS
    <3>1. p \in Nat
      BY FileSizes DEF Page
    <3> QED BY <1>2, <1>3, <1>7, <3>1 DEF Maps
  <2>2. MapsFile(q)'
    <3> HIDE DEF s, old
    <3> QED BY <1>1, <1>2, <1>3, <1>4, <1>12, <2>1 DEF MapsFile
  <2>3. Extends(q)'
    BY <1>0, <1>1, <1>3, <1>12 DEF Extends, At
  <2>4. \A r \in Proc : ~At(r, "undo")'
    BY <1>2, <1>11, <1>12 DEF At
  <2> QED BY <1>1, <1>2, <2>2, <2>3, <2>4 DEF FileInv, FileMapped
<1> QED BY <1>14, <1>15, <1>16, <1>17, <1>18 DEF FileInv

LEMMA GrowKeeps ==
    ASSUME FileConstantsOK, FileInv, NEW q \in Proc, trunc_grow(q), "space" \in FileRules
    PROVE  FileInv'
<1> DEFINE m == pc[q].i
           s == pc[q].size
           old == pc[q].old
<1>0. FileTypeOK /\ At(q, "grow") /\ ~At(q, "user") /\ m < Pages(s)
  BY DEF trunc_grow, FileInv, At
<1>1. /\ UNCHANGED <<size, mem, desc, f_size, fd_offset, own, written>>
      /\ fsipc_map(q, m) /\ pc' = [pc EXCEPT ![q].i = @ + 1]
  BY DEF trunc_grow, fsipc_map_fails
<1>2. /\ desc[q] # NONE /\ desc[q] \in Desc
      /\ \A r \in Proc : r # q => At(r, "user") /\ desc[r] = NONE
      /\ pc[q] \in Place /\ pc \in [Proc -> Place]
      /\ s \in Size /\ old \in Size /\ m \in 0..NPages
      /\ Pages(s) \in 0..NPages /\ Pages(old) \in 0..NPages
  BY <1>0, InTruncate
<1>3. /\ size = s /\ f_size[desc[q]] = s /\ Extends(q)
      /\ m >= Pages(old) /\ (m <= Pages(old) \/ m <= Pages(s))
      /\ \A p \in Page : /\ p < m /\ p < Pages(s) => map[q][p] = ptr[p]
                         /\ p >= m => map[q][p] = NONE
  BY <1>0, InTruncate DEF MapsFile, At
<1>4. m \in Page /\ m \in Nat /\ m + 1 \in 0..NPages /\ m + 1 <= Pages(s) /\ NPages \in Nat
  <2> HIDE DEF m, s
  <2> QED BY <1>0, <1>2, FileSizes DEF Page
<1>5. PICK b \in (IF ptr[m] # NONE THEN {ptr[m]} ELSE FreeBlocks) :
          ptr' = [ptr EXCEPT ![m] = b] /\ map' = [map EXCEPT ![q][m] = b]
  BY <1>1 DEF fsipc_map
<1> DEFINE c == [pc[q] EXCEPT !.i = m + 1]
<1>6. pc' = [pc EXCEPT ![q] = c]
  BY <1>1, <1>2
<1>7. /\ c \in Place /\ c.at = "grow" /\ c.i = m + 1 /\ c.size = s /\ c.old = old
      /\ c.n = pc[q].n /\ c.x = pc[q].x
  BY <1>0, <1>2, <1>4 DEF Place, At
<1> HIDE DEF c
<1>8. pc' \in [Proc -> Place] /\ \A r \in Proc : pc'[r] = IF r = q THEN c ELSE pc[r]
  BY <1>2, <1>6, <1>7
<1>9. /\ pc'[q].at = "grow" /\ pc'[q].i = m + 1 /\ pc'[q].size = s /\ pc'[q].old = old
      /\ pc'[q].n = pc[q].n /\ pc'[q].x = pc[q].x
  BY <1>7, <1>8
<1> HIDE DEF m, s, old
<1>10. /\ b \in Block /\ b # NONE /\ (ptr[m] # NONE => b = ptr[m])
       /\ \A p \in Page : p # m => ptr[p] # b
  <2>1. CASE ptr[m] # NONE
    BY <1>0, <1>4, <1>5, <2>1, FileTypes DEF FileInv, FileBlocks
  <2>2. CASE ptr[m] = NONE
    BY <1>5, <2>2, FileSizes DEF FreeBlocks
  <2> QED BY <2>1, <2>2
<1>11. /\ ptr' \in [Page -> Block \cup {NONE}]
       /\ map' \in [Proc -> [Page -> Block \cup {Own, NONE}]]
       /\ \A p \in Page : ptr'[p] = IF p = m THEN b ELSE ptr[p]
       /\ \A r \in Proc, p \in Page : map'[r][p] = IF r = q /\ p = m THEN b ELSE map[r][p]
  BY <1>0, <1>4, <1>5, <1>10 DEF FileTypeOK
<1>12. FileTypeOK'
  BY <1>0, <1>1, <1>8, <1>11 DEF FileTypeOK, Place
<1>13. OneOpen'
  BY <1>1, <1>2, <1>8 DEF FileInv, OneOpen, At
<1>14. FileBlocks'
  <2>1. \A p, r \in Page : p # r /\ ptr'[p] # NONE => ptr'[p] # ptr'[r]
    BY <1>10, <1>11 DEF FileInv, FileBlocks
  <2>2. \A p \in Page : p < Pages(size) => ptr'[p] # NONE \/ p >= pc'[q].i
    <3> SUFFICES ASSUME NEW p \in Page, p < Pages(size), ptr'[p] = NONE
                 PROVE  p >= m + 1
      BY <1>9
    <3>1. p # m /\ ptr[p] = NONE
      BY <1>10, <1>11
    <3>2. PICK r \in Proc : At(r, "grow") /\ p >= pc[r].i
      BY <3>1 DEF FileInv, FileBlocks
    <3>3. r = q
      BY <1>2, <3>2 DEF At
    <3>4. p \in Nat /\ p >= m
      BY <3>2, <3>3, FileSizes DEF Page, m
    <3> QED BY <1>4, <3>1, <3>4
  <2> QED BY <1>1, <1>9, <2>1, <2>2 DEF FileBlocks, At
<1>15. WrittenInside'
  <2> SUFFICES ASSUME NEW k \in Pos, written[k] # NONE
               PROVE  /\ k < size /\ ptr'[k \div BY2PG] # NONE
                      /\ mem[ptr'[k \div BY2PG]][k % BY2PG] = written[k]
    BY <1>1 DEF WrittenInside
  <2>1. k \div BY2PG \in Page /\ ptr[k \div BY2PG] # NONE /\ k < size
        /\ mem[ptr[k \div BY2PG]][k % BY2PG] = written[k]
    BY Where DEF FileInv, WrittenInside
  <2>2. ptr'[k \div BY2PG] = ptr[k \div BY2PG]
    BY <1>10, <1>11, <2>1
  <2> QED BY <2>1, <2>2
<1>16. FileMapped'
  <2>1. \A p \in Page : /\ p < m + 1 /\ p < Pages(s) => map'[q][p] = ptr'[p]
                        /\ p >= m + 1 => map'[q][p] = NONE
    <3> SUFFICES ASSUME NEW p \in Page
                 PROVE  /\ p < m + 1 /\ p < Pages(s) => map'[q][p] = ptr'[p]
                        /\ p >= m + 1 => map'[q][p] = NONE
      OBVIOUS
    <3>1. p \in Nat
      BY FileSizes DEF Page
    <3> QED BY <1>3, <1>4, <1>11, <3>1
  <2>2. MapsFile(q)'
    <3>1. m + 1 >= Pages(old)
      BY <1>2, <1>3, <1>4
    <3> QED BY <1>1, <1>3, <1>4, <1>9, <2>1, <3>1 DEF MapsFile
  <2>3. Extends(q)'
    BY <1>0, <1>1, <1>3, <1>9 DEF Extends, At, s, old
  <2>4. \A r \in Proc : ~At(r, "undo")'
    BY <1>2, <1>8, <1>9 DEF At
  <2>5. \A r \in Proc, p \in Page : map'[r][p] # Own /\ (desc'[r] = NONE => map'[r][p] = NONE)
    BY <1>1, <1>2, <1>10, <1>11, FileSizes DEF FileInv, FileMapped
  <2>6. \A r \in Proc : desc'[r] # NONE => r = q
    BY <1>1, <1>2
  <2> QED BY <2>2, <2>3, <2>4, <2>5, <2>6 DEF FileMapped
<1> QED BY <1>12, <1>13, <1>14, <1>15, <1>16 DEF FileInv

\* The end of ftruncate: the process is between calls again.
LEMMA BackToUser ==
    ASSUME FileConstantsOK, FileInv, NEW q \in Proc, ~At(q, "user"), FileTypeOK', WrittenInside',
           UNCHANGED <<size, ptr, desc, f_size>>, pc' = [pc EXCEPT ![q] = User],
           size = f_size[desc[q]], \A p \in Page : p < Pages(size) => ptr[p] # NONE,
           Maps(q, Pages(size))', \A r \in Proc : r # q => map'[r] = map[r]
    PROVE  FileInv'
<1>0. FileTypeOK /\ User.at = "user"
  BY DEF FileInv, User
<1>1. desc[q] # NONE /\ \A r \in Proc : r # q => At(r, "user") /\ desc[r] = NONE
  BY OnlyOne
<1>2. \A r \in Proc : pc'[r] = IF r = q THEN User ELSE pc[r]
  BY <1>0 DEF FileTypeOK
<1>3. OneOpen'
  BY <1>0, <1>1, <1>2 DEF FileInv, OneOpen, At
<1>4. FileBlocks'
  BY DEF FileInv, FileBlocks
<1>5. FileMapped'
  <2>1. MapsFile(q)'
    BY <1>0, <1>2 DEF MapsFile, Maps
  <2>2. Extends(q)'
    BY <1>0, <1>2 DEF Extends
  <2>3. \A r \in Proc : ~At(r, "undo")'
    BY <1>0, <1>1, <1>2 DEF At
  <2>4. \A p \in Page : map'[q][p] # Own
    BY <1>0, FileSizes DEF Maps, FileTypeOK
  <2>5. \A r \in Proc : r # q => desc'[r] = NONE /\ \A p \in Page : map'[r][p] = NONE
    BY <1>1 DEF FileInv, FileMapped
  <2> QED BY <1>1, <2>1, <2>2, <2>3, <2>4, <2>5, FileSizes DEF FileMapped
<1> QED BY <1>3, <1>4, <1>5 DEF FileInv

LEMMA EndKeeps ==
    ASSUME FileConstantsOK, FileInv, NEW q \in Proc, trunc_end(q)
    PROVE  FileInv'
<1> DEFINE m == pc[q].i
           s == pc[q].size
           old == pc[q].old
           n == pc[q].n
<1>0. FileTypeOK /\ At(q, "grow") /\ m >= Pages(s) /\ size' = size /\ ~At(q, "user")
  BY DEF trunc_end, FileInv, FileMapped, At
<1>1. UNCHANGED <<desc, f_size>> /\ pc' = [pc EXCEPT ![q] = User]
  BY DEF trunc_end
<1>2. /\ desc[q] # NONE /\ desc[q] \in Desc
      /\ \A r \in Proc : r # q => At(r, "user") /\ desc[r] = NONE
      /\ s \in Size /\ old \in Size /\ m \in 0..NPages /\ n \in Size
      /\ Pages(s) \in 0..NPages /\ Pages(old) \in 0..NPages /\ NPages \in Nat
  BY <1>0, InTruncate, FileTypes, FileSizes
<1>3. /\ size = s /\ f_size[desc[q]] = s /\ Extends(q)
      /\ m >= Pages(old) /\ (m <= Pages(old) \/ m <= Pages(s))
      /\ \A p \in Page : /\ p < m /\ p < Pages(s) => map[q][p] = ptr[p]
                         /\ p >= m => map[q][p] = NONE
  BY <1>0, InTruncate DEF MapsFile, At
<1>4. n > 0 => /\ s > old /\ pc[q].x \in Byte /\ fd_offset[desc[q]] + n = s
  BY <1>0, <1>3 DEF Extends, At
<1>5. pc' \in [Proc -> Place]
  BY <1>0, <1>1, SizeFacts, FileTypes
<1> HIDE DEF m, s, old, n
<1>6. \A p \in Page : p < Pages(s) => ptr[p] # NONE
  <2> SUFFICES ASSUME NEW p \in Page, p < Pages(s), ptr[p] = NONE PROVE FALSE
    OBVIOUS
  <2>1. PICK r \in Proc : At(r, "grow") /\ p >= pc[r].i
    BY <1>3 DEF FileInv, FileBlocks
  <2>2. r = q
    BY <1>2, <2>1 DEF At
  <2>3. p \in Nat /\ p >= m
    BY <2>1, <2>2, FileSizes DEF Page, m
  <2> QED BY <1>0, <1>2, <2>3
<1>7. CASE n > 0
  <2>1. Copy(q, s - n, n, pc[q].x)
    BY <1>0, <1>7 DEF trunc_end, s, n, At
  <2>2. s \in Nat /\ old \in Nat /\ n \in Nat \ {0} /\ fd_offset[desc[q]] \in Nat
    BY <1>0, <1>2, <1>7, SizeFacts, FileTypes
  <2>3. m = Pages(s)
    <3>1. Pages(old) <= Pages(s)
      BY <1>2, <1>4, <1>7, <2>2, PagesMonotone
    <3> QED BY <1>0, <1>2, <1>3, <3>1
  <2>4. Maps(q, Pages(s))
    <3> SUFFICES ASSUME NEW p \in Page
                 PROVE  map[q][p] = IF p < Pages(s) THEN ptr[p] ELSE NONE
      BY DEF Maps
    <3>1. p \in Nat
      BY FileSizes DEF Page
    <3> QED BY <1>2, <1>3, <2>3, <3>1
  <2>5. s - n \in Nat /\ (s - n) + n <= size /\ fd_offset[desc[q]] + n <= size
    BY <1>3, <1>4, <1>7, <2>2
  <2>6. /\ map' = map /\ ptr' = ptr
        /\ mem' \in [Block -> Contents] /\ own' \in [Proc -> [Page -> Contents]]
        /\ written' \in [Pos -> Byte \cup {NONE}] /\ fd_offset' \in [Desc -> Size]
        /\ WrittenInside'
    BY <1>0, <1>2, <1>3, <1>4, <1>6, <1>7, <2>1, <2>2, <2>4, <2>5, CopySound
  <2>7. FileTypeOK'
    BY <1>0, <1>1, <1>5, <2>6 DEF FileTypeOK, Place
  <2>8. Maps(q, Pages(size))'
    BY <1>0, <1>3, <2>4, <2>6 DEF Maps
  <2> QED BY <1>0, <1>1, <1>3, <1>6, <2>6, <2>7, <2>8, BackToUser
<1>8. CASE ~(n > 0)
  <2> DEFINE rest == [p \in Page |-> IF p >= Pages(s) /\ p < Pages(old) THEN NONE ELSE map[q][p]]
  <2>1. map' = [map EXCEPT ![q] = rest] /\ UNCHANGED <<ptr, mem, fd_offset, own, written>>
    BY <1>0, <1>8 DEF trunc_end, s, old, n, At, FileInv, FileMapped
  <2>2. \A p \in Page : rest[p] = IF p < Pages(s) THEN ptr[p] ELSE NONE
    <3> SUFFICES ASSUME NEW p \in Page
                 PROVE  rest[p] = IF p < Pages(s) THEN ptr[p] ELSE NONE
      OBVIOUS
    <3>1. p \in Nat
      BY FileSizes DEF Page
    <3>2. CASE p < Pages(s)
      BY <1>0, <1>2, <1>3, <3>1, <3>2
    <3>3. CASE ~(p < Pages(s)) /\ p < Pages(old)
      BY <1>2, <3>1, <3>3
    <3>4. CASE ~(p < Pages(s)) /\ ~(p < Pages(old))
      BY <1>2, <1>3, <3>1, <3>4
    <3> QED BY <3>2, <3>3, <3>4
  <2>3. rest \in [Page -> Block \cup {Own, NONE}]
    BY <1>0 DEF FileTypeOK
  <2> HIDE DEF rest
  <2>4. /\ map' \in [Proc -> [Page -> Block \cup {Own, NONE}]]
        /\ map'[q] = rest /\ \A r \in Proc : r # q => map'[r] = map[r]
    BY <1>0, <2>1, <2>3 DEF FileTypeOK
  <2>5. FileTypeOK'
    BY <1>0, <1>1, <1>5, <2>1, <2>4 DEF FileTypeOK, Place
  <2>6. Maps(q, Pages(size))'
    BY <1>0, <1>3, <2>1, <2>2, <2>4 DEF Maps
  <2> QED BY <1>0, <1>1, <1>3, <1>6, <2>1, <2>4, <2>5, <2>6, FileSame, BackToUser
<1> QED BY <1>7, <1>8

-----------------------------------------------------------------------------
(* Files: the theorem.                                                      *)

\* What the rules mean.
LEMMA OpenedByOne ==
    ASSUME "one" \in FileRules, NEW q \in Proc, NEW d \in Desc, open(q, d)
    PROVE  \A r \in Proc : desc[r] = NONE
BY DEF open, Ask

LEMMA ResizedAlone ==
    ASSUME "alone" \in FileRules, NEW q \in Proc, NEW s \in Size, NEW n \in Size,
           NEW x \in Byte \cup {0}, Truncate(q, s, n, x)
    PROVE  Users(desc[q]) = {q}
BY DEF Truncate, Ask

LEMMA ResizeKeeps ==
    ASSUME FileConstantsOK, FileInv, NEW q \in Proc, NEW s \in Size, ftruncate(q, s),
           "alone" \in FileRules
    PROVE  FileInv'
<1>1. 0 \in Size /\ 0 \in Byte \cup {0} /\ ~(0 > 0)
  BY SizeFacts
<1>2. Idle(q) /\ Truncate(q, s, 0, 0)
  BY DEF ftruncate
<1>3. Users(desc[q]) = {q}
  BY <1>1, <1>2, ResizedAlone
<1>4. 0 > 0 => s > f_size[desc[q]] /\ 0 \in Byte /\ fd_offset[desc[q]] + 0 = s
  BY <1>1
<1> QED BY <1>1, <1>2, <1>3, <1>4, TruncateKeeps

LEMMA WholeWriteKeeps ==
    ASSUME FileConstantsOK, FileInv, NEW q \in Proc, NEW n \in 1..BY2PG, NEW x \in Byte,
           write(q, n, x), "alone" \in FileRules
    PROVE  FileInv'
<1> DEFINE off == fd_offset[desc[q]]
           end == f_size[desc[q]]
<1>1. Idle(q) /\ off + n <= MAXFILESIZE
  BY DEF write
<1>2. off \in Nat /\ end \in Nat /\ n \in Nat /\ n > 0
  <2>1. FileTypeOK /\ desc[q] # NONE
    BY <1>1, AllUser DEF FileInv
  <2>2. off \in Size /\ end \in Size
    BY <2>1, FileTypes
  <2> QED BY <2>2, SizeFacts, FileSizes
<1>3. CASE off + n > end
  <2> DEFINE s == off + n
  <2>1. s \in Size /\ n \in Size
    <3>1. s \in Nat /\ n <= s /\ MAXFILESIZE \in Nat
      BY <1>2, FileSizes
    <3>2. s <= MAXFILESIZE /\ n <= MAXFILESIZE
      BY <1>1, <1>2, <3>1
    <3> QED BY <1>2, <3>1, <3>2, SizeFacts
  <2>2. Truncate(q, s, n, x) /\ x \in Byte \cup {0}
    BY <1>3 DEF write
  <2>3. Users(desc[q]) = {q}
    BY <2>1, <2>2, ResizedAlone
  <2>4. n > 0 => s > f_size[desc[q]] /\ x \in Byte /\ fd_offset[desc[q]] + n = s
    BY <1>3
  <2> HIDE DEF s
  <2> QED BY <1>1, <2>1, <2>2, <2>3, <2>4, TruncateKeeps
<1>4. CASE ~(off + n > end)
  <2>1. Copy(q, off, n, x) /\ UNCHANGED <<size, f_size, pc>>
    BY <1>4 DEF write
  <2>2. off + n <= end
    BY <1>2, <1>4
  <2> QED BY <1>1, <2>1, <2>2, WriteKeeps
<1> QED BY <1>3, <1>4

\* At the start the file is empty, and nobody has it open.
LEMMA StartTypes ==
    ASSUME FileConstantsOK, FileInit
    PROVE  FileTypeOK
<1>1. 0 \in Size /\ User \in Place /\ Zeros \in Contents
  BY SizeFacts DEF Zeros, Contents
<1>2. /\ size \in Size /\ ptr \in [Page -> Block \cup {NONE}]
      /\ mem \in [Block -> Contents] /\ desc \in [Proc -> Desc \cup {NONE}]
  BY <1>1 DEF FileInit
<1>3. f_size \in [Desc -> Size] /\ fd_offset \in [Desc -> Size]
  BY <1>1 DEF FileInit
<1>4. /\ map \in [Proc -> [Page -> Block \cup {Own, NONE}]]
      /\ own \in [Proc -> [Page -> Contents]]
  BY <1>1 DEF FileInit
<1>5. pc \in [Proc -> Place] /\ written \in [Pos -> Byte \cup {NONE}]
  BY <1>1 DEF FileInit
<1> QED BY <1>2, <1>3, <1>4, <1>5 DEF FileTypeOK, Place

LEMMA FileStart ==
    ASSUME FileConstantsOK, FileInit
    PROVE  FileInv
<1>1. \A q \in Proc : pc[q] = User /\ At(q, "user") /\ desc[q] = NONE
  BY DEF FileInit, At, User
<1>2. \A q \in Proc, p \in Page : map[q][p] = NONE
  BY DEF FileInit
<1>3. /\ size = 0 /\ \A p \in Page : ptr[p] = NONE
      /\ \A k \in Pos : written[k] = NONE
  BY DEF FileInit
<1>4. OneOpen
  BY <1>1 DEF OneOpen
<1>5. FileBlocks
  <2>1. \A p \in Page : ~(p < Pages(size))
    <3>1. Pages(0) = 0 /\ 0 \in Size
      BY SizeFacts, PagesFacts
    <3> QED BY <1>3, <3>1 DEF Page
  <2> QED BY <1>3, <2>1 DEF FileBlocks
<1>6. FileMapped
  <2>1. \A q \in Proc : ~At(q, "undo")
    BY <1>1 DEF User, At
  <2>2. NONE # Own
    BY FileSizes
  <2> QED BY <1>1, <1>2, <2>1, <2>2 DEF FileMapped
<1>7. WrittenInside
  BY <1>3 DEF WrittenInside
<1> QED BY <1>4, <1>5, <1>6, <1>7, StartTypes DEF FileInv

LEMMA FileStutters ==
    ASSUME FileInv, UNCHANGED fileVars
    PROVE  FileInv'
<1>1. UNCHANGED <<size, ptr, mem, desc, f_size, fd_offset, map, own, pc, written>>
  BY DEF fileVars
<1>2. FileTypeOK'
  BY <1>1 DEF FileInv, FileTypeOK
<1>3. OneOpen'
  BY <1>1 DEF FileInv, OneOpen, At
<1>4. FileBlocks'
  BY <1>1 DEF FileInv, FileBlocks, At
<1>5. FileMapped'
  BY <1>1 DEF FileInv, FileMapped, MapsFile, Maps, Extends, At
<1> QED BY <1>1, <1>2, <1>3, <1>4, <1>5, FileSame DEF FileInv

LEMMA FileSteps ==
    ASSUME FileConstantsOK, FileInv, FileNext,
           "one" \in FileRules, "alone" \in FileRules, "space" \in FileRules
    PROVE  FileInv'
<1>1. PICK q \in Proc :
        \/ \E d \in Desc : open(q, d)
        \/ open_map(q)
        \/ \E append \in BOOLEAN : open_end(q, append)
        \/ \E c \in Proc : fork(q, c)
        \/ close(q)
        \/ \E s \in Size : seek(q, s)
        \/ \E n \in 1..BY2PG : read(q, n)
        \/ \E n \in 1..BY2PG, x \in Byte : write(q, n, x)
        \/ \E s \in Size : ftruncate(q, s)
        \/ trunc_set_size(q) \/ trunc_grow(q) \/ trunc_end(q)
  BY DEF FileNext
<1>2. CASE \E d \in Desc : open(q, d)
  BY <1>2, OpenedByOne, OpenKeeps
<1>3. CASE open_map(q)
  BY <1>3, OpenMapKeeps
<1>4. CASE \E append \in BOOLEAN : open_end(q, append)
  BY <1>4, OpenEndKeeps
<1>5. CASE \E c \in Proc : fork(q, c)
  BY <1>5, ForkKeeps
<1>6. CASE close(q)
  BY <1>6, CloseKeeps
<1>7. CASE \E s \in Size : seek(q, s)
  BY <1>7, SeekKeeps
<1>8. CASE \E n \in 1..BY2PG : read(q, n)
  BY <1>8, ReadKeeps
<1>9. CASE \E n \in 1..BY2PG, x \in Byte : write(q, n, x)
  BY <1>9, WholeWriteKeeps
<1>10. CASE \E s \in Size : ftruncate(q, s)
  BY <1>10, ResizeKeeps
<1>11. CASE trunc_set_size(q)
  BY <1>11, SetSizeKeeps
<1>12. CASE trunc_grow(q)
  BY <1>12, GrowKeeps
<1>13. CASE trunc_end(q)
  BY <1>13, EndKeeps
<1> QED BY <1>1, <1>2, <1>3, <1>4, <1>5, <1>6, <1>7, <1>8, <1>9, <1>10, <1>11, <1>12, <1>13

\* While one process is in ftruncate, no other is in a call.
LEMMA OthersKeepPlace ==
    ASSUME FileConstantsOK, FileInv, NEW q \in Proc, At(q, "set_size"), FileNext, pc'[q] # pc[q]
    PROVE  trunc_set_size(q)
<1>0. /\ ~At(q, "user") /\ ~At(q, "open") /\ ~At(q, "grow") /\ ~At(q, "undo")
      /\ pc \in [Proc -> Place]
  BY InTruncate DEF At
<1>1. desc[q] # NONE /\ \A r \in Proc : r # q => At(r, "user") /\ desc[r] = NONE
  BY <1>0, OnlyOne
<1>2. PICK r \in Proc :
        \/ \E d \in Desc : open(r, d)
        \/ open_map(r)
        \/ \E append \in BOOLEAN : open_end(r, append)
        \/ \E c \in Proc : fork(r, c)
        \/ close(r)
        \/ \E s \in Size : seek(r, s)
        \/ \E n \in 1..BY2PG : read(r, n)
        \/ \E n \in 1..BY2PG, x \in Byte : write(r, n, x)
        \/ \E s \in Size : ftruncate(r, s)
        \/ trunc_set_size(r) \/ trunc_grow(r) \/ trunc_end(r)
  BY DEF FileNext
<1>3. ~Idle(r)
  BY <1>0, <1>1 DEF Idle
<1>4. ~\E d \in Desc : open(r, d)
  <2> SUFFICES ASSUME NEW d \in Desc, open(r, d) PROVE FALSE
    OBVIOUS
  <2>1. At(r, "user") /\ pc' = [pc EXCEPT ![r] = [User EXCEPT !.at = "open", !.old = size]]
    BY DEF open
  <2>2. r # q
    BY <1>0, <2>1
  <2>3. pc'[q] = pc[q]
    BY <1>0, <2>1, <2>2
  <2> QED BY <2>3
<1>5. ~At(r, "open") /\ ~At(r, "grow") /\ ~At(r, "undo")
  BY <1>0, <1>1 DEF At
<1>6. ~open_map(r) /\ (\A append \in BOOLEAN : ~open_end(r, append)) /\ ~trunc_grow(r)
      /\ ~trunc_end(r)
  BY <1>5 DEF open_map, open_end, trunc_grow, trunc_end
<1>7. (\A c \in Proc : ~fork(r, c)) /\ ~close(r) /\ (\A s \in Size : ~seek(r, s))
  BY <1>3 DEF fork, close, seek
<1>8. /\ \A n \in 1..BY2PG : ~read(r, n)
      /\ \A n \in 1..BY2PG, x \in Byte : ~write(r, n, x)
      /\ \A s \in Size : ~ftruncate(r, s)
  BY <1>3 DEF read, write, ftruncate
<1>9. trunc_set_size(r)
  BY <1>2, <1>4, <1>6, <1>7, <1>8
<1>10. At(r, "set_size")
  BY <1>9 DEF trunc_set_size
<1>11. r = q
  BY <1>1, <1>10 DEF At
<1> QED BY <1>9, <1>11

LEMMA NeverShrinks ==
    ASSUME FileConstantsOK, FileInv, [FileNext]_fileVars
    PROVE  \A q \in Proc : (At(q, "set_size") /\ pc[q].n > 0 /\ pc'[q] # pc[q]) => size' >= size
<1> SUFFICES ASSUME NEW q \in Proc, At(q, "set_size"), pc[q].n > 0, pc'[q] # pc[q]
             PROVE  size' >= size
  OBVIOUS
<1>1. FileNext
  BY DEF fileVars
<1>2. trunc_set_size(q)
  BY <1>1, OthersKeepPlace
<1>3. size' = pc[q].size
  BY <1>2 DEF trunc_set_size, file_set_size
<1>4. MapsFile(q) /\ Extends(q) /\ pc[q].size \in Size /\ pc[q].old \in Size
  BY InTruncate
<1>5. size = pc[q].old
  BY <1>4 DEF MapsFile, At
<1>6. pc[q].size > pc[q].old
  BY <1>4 DEF Extends, At
<1>7. pc[q].size \in Nat /\ pc[q].old \in Nat
  BY <1>4, SizeFacts
<1> QED BY <1>3, <1>5, <1>6, <1>7

\* Reading and writing an open file (user/lib/file.c): between calls a process reads,
\* at every position inside the file, the byte that was last written there, by
\* whichever process; what a write returned as written is in the server's file,
\* inside its size and in one of its blocks; and no write makes the file smaller.
\* It is assumed that one process opens the file (which may fork), that its size is
\* changed while one process has it, and that the server finds a block.
THEOREM FilesAreKept ==
    ASSUME "one" \in FileRules, "alone" \in FileRules, "space" \in FileRules
    PROVE  FileSpec => FileKept
<1> USE FileConstantsAssumption
<1>1. FileInit => FileInv
  BY FileStart
<1>2. FileInv /\ [FileNext]_fileVars => FileInv'
  BY FileSteps, FileStutters
<1>3. FileInv => FileTypeOK /\ ReadsWritten /\ WrittenInside
  BY ReadsSound DEF FileInv
<1>4. FileInv /\ [FileNext]_fileVars =>
        [\A q \in Proc : (At(q, "set_size") /\ pc[q].n > 0 /\ pc'[q] # pc[q])
            => size' >= size]_fileVars
  BY NeverShrinks
<1> QED BY <1>1, <1>2, <1>3, <1>4, PTL DEF FileSpec, FileKept, WriteNeverShrinks

==============================================================================
