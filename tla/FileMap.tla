------------------------------- MODULE FileMap -------------------------------
(***************************************************************************)
(* Reading and writing an open file (user/lib/file.c, fd.c).  The pages of  *)
(* a file are the server's blocks, mapped in each process that opened it;   *)
(* the size and the offset are in the Filefd page, which a fork shares.     *)
(* read and write copy memory; only a change of the size, and open and      *)
(* close, talk to the server, one request at a time, and other processes    *)
(* run in between.                                                          *)
(*                                                                         *)
(* One file, and one descriptor in each process.  `written` remembers the   *)
(* bytes that were written and not cut off since.                           *)
(***************************************************************************)
EXTENDS Naturals

CONSTANTS Proc,        \* processes
          Desc,        \* Filefd pages
          Block,       \* blocks the server has for the file
          BY2PG,       \* bytes of a page
          NPages,      \* pages of the largest file
          Byte,        \* bytes that are written, not 0
          FileRules,   \* what is assumed of the processes and the server
          Own,         \* a page of the process itself
          NONE

\* "one": the file is opened by one process at a time (which may fork);
\* "alone": its size is changed only while one process has it;
\* "space": the server always finds a block.
AllFileRules == {"one", "alone", "space"}
Ask(rule, holds) == rule \in FileRules => holds

FileConstantsOK ==
    /\ BY2PG \in Nat \ {0} /\ NPages \in Nat \ {0}
    /\ Byte \subseteq Nat \ {0} /\ FileRules \subseteq AllFileRules
    /\ NONE # Own /\ {NONE, Own} \cap (Desc \cup Byte \cup Block) = {}

ASSUME FileConstantsAssumption == FileConstantsOK

MAXFILESIZE == NPages * BY2PG
Page == 0..(NPages - 1)
Pos == 0..(MAXFILESIZE - 1)
Size == 0..MAXFILESIZE
Contents == [0..(BY2PG - 1) -> Byte \cup {0}]
Zeros == [o \in 0..(BY2PG - 1) |-> 0]

\* Pages that a size needs: ROUND(size, BY2PG) / BY2PG.
Pages(size) == (size + BY2PG - 1) \div BY2PG

VARIABLES size, ptr,  \* the server's File: its size and blocks
          mem,        \* contents of the blocks
          desc,       \* the Filefd page a process maps, or NONE
          f_size, fd_offset,
          map,        \* its file pages: a block, a page of its own, or none
          own,        \* contents of the pages of its own
          pc,         \* where a process is in its call
          written     \* at each position the byte last written, or NONE

fileVars == <<size, ptr, mem, desc, f_size, fd_offset, map, own, pc, written>>

User == [at |-> "user", i |-> 0, size |-> 0, old |-> 0, n |-> 0, x |-> 0]

FileTypeOK ==
    /\ size \in Size /\ ptr \in [Page -> Block \cup {NONE}]
    /\ mem \in [Block -> Contents]
    /\ desc \in [Proc -> Desc \cup {NONE}]
    /\ f_size \in [Desc -> Size] /\ fd_offset \in [Desc -> Size]
    /\ map \in [Proc -> [Page -> Block \cup {Own, NONE}]]
    /\ own \in [Proc -> [Page -> Contents]]
    /\ pc \in [Proc -> [at : {"user", "open", "set_size", "grow", "undo", "shrink"},
                        i : 0..NPages, size : Size, old : Size, n : Size, x : Byte \cup {0}]]
    /\ written \in [Pos -> Byte \cup {NONE}]

FileInit ==
    /\ size = 0 /\ ptr = [p \in Page |-> NONE]
    /\ mem = [b \in Block |-> Zeros]
    /\ desc = [q \in Proc |-> NONE]
    /\ f_size = [d \in Desc |-> 0] /\ fd_offset = [d \in Desc |-> 0]
    /\ map = [q \in Proc |-> [p \in Page |-> NONE]]
    /\ own = [q \in Proc |-> [p \in Page |-> Zeros]]
    /\ pc = [q \in Proc |-> User]
    /\ written = [k \in Pos |-> NONE]

At(q, label) == pc[q].at = label
Goto(q, label) == pc' = [pc EXCEPT ![q].at = label]
Idle(q) == At(q, "user") /\ desc[q] # NONE
Users(d) == {q \in Proc : desc[q] = d}

-----------------------------------------------------------------------------
(* The server (FsBlocks has the details).                                   *)

FreeBlocks == Block \ {ptr[p] : p \in Page}

\* fsipc_map of page p: file_get_block gives the file a block where it has none,
\* with what it held before, and maps it.
fsipc_map(q, p) ==
    \E b \in (IF ptr[p] # NONE THEN {ptr[p]} ELSE FreeBlocks) :
        /\ ptr' = [ptr EXCEPT ![p] = b]
        /\ map' = [map EXCEPT ![q][p] = b]

fsipc_map_fails(p) == "space" \notin FileRules /\ ptr[p] = NONE

\* file_set_size: a smaller file keeps newsize / BY2BLK + 1 blocks, an empty one
\* none.
file_set_size(s) ==
    /\ size' = s
    /\ ptr' = [p \in Page |->
                 IF s < size /\ p >= (IF s = 0 THEN 0 ELSE s \div BY2PG + 1)
                             /\ p < size \div BY2PG + 1
                 THEN NONE ELSE ptr[p]]
    /\ written' = [k \in Pos |-> IF k >= s THEN NONE ELSE written[k]]

-----------------------------------------------------------------------------
(* open, fork, close, seek.                                                 *)

\* fsipc_open maps a new Filefd page, a copy of the server's File.
open(q, d) ==
    /\ At(q, "user") /\ desc[q] = NONE /\ Users(d) = {}
    /\ Ask("one", \A o \in Proc : desc[o] = NONE)
    /\ desc' = [desc EXCEPT ![q] = d]
    /\ f_size' = [f_size EXCEPT ![d] = size]
    /\ fd_offset' = [fd_offset EXCEPT ![d] = 0]
    /\ pc' = [pc EXCEPT ![q] = [User EXCEPT !.at = "open", !.old = size]]
    /\ UNCHANGED <<size, ptr, mem, map, own, written>>

\* One turn of open's loop.  When it fails, open returns and leaves what is mapped.
open_map(q) ==
    /\ At(q, "open") /\ pc[q].i < Pages(pc[q].old)
    /\ \/ fsipc_map(q, pc[q].i) /\ pc' = [pc EXCEPT ![q].i = @ + 1]
       \/ fsipc_map_fails(pc[q].i) /\ pc' = [pc EXCEPT ![q] = User] /\ UNCHANGED <<ptr, map>>
    /\ UNCHANGED <<size, mem, desc, f_size, fd_offset, own, written>>

\* What the process reads at position k: a page that is not mapped is given a
\* page of zeros when it is touched.
View(q, k) ==
    LET p == k \div BY2PG
        o == k % BY2PG
    IN  IF map[q][p] = NONE THEN 0
        ELSE IF map[q][p] = Own THEN own[q][p][o] ELSE mem[map[q][p]][o]

\* The end of open; with O_APPEND the offset goes to the first zero byte.
open_end(q, append) ==
    /\ At(q, "open") /\ pc[q].i >= Pages(pc[q].old)
    /\ IF append
       THEN \E z \in 0..f_size[desc[q]] :
               /\ \A k \in Pos : k < z => View(q, k) # 0
               /\ z < f_size[desc[q]] => View(q, z) = 0
               /\ fd_offset' = [fd_offset EXCEPT ![desc[q]] = z]
       ELSE UNCHANGED fd_offset
    /\ pc' = [pc EXCEPT ![q] = User]
    /\ UNCHANGED <<size, ptr, mem, desc, f_size, map, own, written>>

\* fork shares the descriptor and the blocks, and copies the pages of its own.
fork(q, c) ==
    /\ Idle(q) /\ At(c, "user") /\ desc[c] = NONE
    /\ desc' = [desc EXCEPT ![c] = desc[q]]
    /\ map' = [map EXCEPT ![c] = map[q]]
    /\ own' = [own EXCEPT ![c] = own[q]]
    /\ UNCHANGED <<size, ptr, mem, f_size, fd_offset, pc, written>>

\* close unmaps the pages that f_size says there are, and the descriptor.
close(q) ==
    /\ Idle(q)
    /\ map' = [map EXCEPT ![q] =
                 [p \in Page |-> IF p < Pages(f_size[desc[q]]) THEN NONE ELSE map[q][p]]]
    /\ desc' = [desc EXCEPT ![q] = NONE]
    /\ UNCHANGED <<size, ptr, mem, f_size, fd_offset, own, pc, written>>

seek(q, s) ==
    /\ Idle(q)
    /\ fd_offset' = [fd_offset EXCEPT ![desc[q]] = s]
    /\ UNCHANGED <<size, ptr, mem, desc, f_size, map, own, pc, written>>

-----------------------------------------------------------------------------
(* read and write.                                                          *)

\* The process touches pages: the ones that are not mapped become its own.
Touch(q, pages) ==
    /\ map' = [map EXCEPT ![q] = [p \in Page |-> IF p \in pages /\ map[q][p] = NONE
                                                 THEN Own ELSE map[q][p]]]
PagesOf(off, n) == {p \in Page : \E k \in off..(off + n - 1) : p = k \div BY2PG}

read(q, n) ==
    /\ Idle(q)
    /\ LET d == desc[q]
           off == fd_offset[d]
           m == IF off > f_size[d] THEN 0
                ELSE IF off + n > f_size[d] THEN f_size[d] - off ELSE n
           new == {p \in PagesOf(off, m) : map[q][p] = NONE}
       IN  /\ Touch(q, new)
           /\ own' = [own EXCEPT ![q] = [p \in Page |-> IF p \in new THEN Zeros ELSE own[q][p]]]
           /\ fd_offset' = [fd_offset EXCEPT ![d] = off + m]
    /\ UNCHANGED <<size, ptr, mem, desc, f_size, pc, written>>

\* memcpy of n bytes x to the file pages, and the new offset.
Copy(q, off, n, x) ==
    LET new == {p \in PagesOf(off, n) : map[q][p] = NONE}
        In(p, o) == p * BY2PG + o \in off..(off + n - 1)
    IN  /\ Touch(q, new)
        /\ own' = [own EXCEPT ![q] = [p \in Page |-> [o \in 0..(BY2PG - 1) |->
                     IF In(p, o) /\ map[q][p] \in {Own, NONE} THEN x
                     ELSE IF p \in new THEN 0 ELSE own[q][p][o]]]]
        /\ mem' = [b \in Block |-> [o \in 0..(BY2PG - 1) |->
                     IF \E p \in Page : map[q][p] = b /\ In(p, o) THEN x ELSE mem[b][o]]]
        /\ written' = [k \in Pos |-> IF k \in off..(off + n - 1) THEN x ELSE written[k]]
        /\ fd_offset' = [fd_offset EXCEPT ![desc[q]] = fd_offset[desc[q]] + n]
        /\ UNCHANGED <<ptr, desc>>

\* ftruncate begins by writing the new size in the descriptor.
Truncate(q, s, n, x) ==
    /\ Ask("alone", Users(desc[q]) = {q})
    /\ f_size' = [f_size EXCEPT ![desc[q]] = s]
    /\ pc' = [pc EXCEPT ![q] = [User EXCEPT !.at = "set_size", !.size = s,
                                !.old = f_size[desc[q]], !.n = n, !.x = x]]
    /\ UNCHANGED <<size, ptr, mem, desc, fd_offset, map, own, written>>

\* file_write of n bytes x; past the end it extends the file first.
write(q, n, x) ==
    /\ Idle(q)
    /\ LET off == fd_offset[desc[q]] IN
       /\ off + n <= MAXFILESIZE
       /\ IF off + n > f_size[desc[q]] THEN Truncate(q, off + n, n, x)
          ELSE Copy(q, off, n, x) /\ UNCHANGED <<size, f_size, pc>>

ftruncate(q, s) == Idle(q) /\ Truncate(q, s, 0, 0)

trunc_set_size(q) ==
    /\ At(q, "set_size")
    /\ file_set_size(pc[q].size)
    /\ pc' = [pc EXCEPT ![q].at = "grow", ![q].i = Pages(pc[q].old)]
    /\ UNCHANGED <<mem, desc, f_size, fd_offset, map, own>>

\* Faulty variant: mapping starts after the page that follows the old end.
trunc_grow_late(q) ==
    /\ At(q, "grow") /\ pc[q].i < Pages(pc[q].size)
    /\ IF pc[q].i = Pages(pc[q].old) /\ pc[q].old # 0 THEN UNCHANGED <<ptr, map>>
       ELSE fsipc_map(q, pc[q].i)
    /\ pc' = [pc EXCEPT ![q].i = @ + 1]
    /\ UNCHANGED <<size, mem, desc, f_size, fd_offset, own, written>>

trunc_grow(q) ==
    /\ At(q, "grow") /\ pc[q].i < Pages(pc[q].size)
    /\ \/ /\ fsipc_map(q, pc[q].i)
          /\ pc' = [pc EXCEPT ![q].i = @ + 1]
       \/ fsipc_map_fails(pc[q].i) /\ Goto(q, "undo") /\ UNCHANGED <<ptr, map>>
    /\ UNCHANGED <<size, mem, desc, f_size, fd_offset, own, written>>

\* The end of ftruncate: pages behind the new end are unmapped, and the write
\* that extended the file copies its bytes.  After a failure the server is given
\* the old size, and the call returns; the descriptor keeps the new one.
trunc_end(q) ==
    /\ \/ /\ At(q, "grow") /\ pc[q].i >= Pages(pc[q].size)
          /\ UNCHANGED size
          /\ IF pc[q].n > 0 THEN Copy(q, pc[q].size - pc[q].n, pc[q].n, pc[q].x)
             ELSE /\ map' = [map EXCEPT ![q] =
                               [p \in Page |-> IF p >= Pages(pc[q].size) /\ p < Pages(pc[q].old)
                                               THEN NONE ELSE map[q][p]]]
                  /\ UNCHANGED <<ptr, mem, fd_offset, own, written>>
       \/ /\ At(q, "undo")
          /\ file_set_size(pc[q].old)
          /\ UNCHANGED <<mem, fd_offset, map, own>>
    /\ pc' = [pc EXCEPT ![q] = User]
    /\ UNCHANGED <<desc, f_size>>

FileNext ==
    \E q \in Proc :
        \/ \E d \in Desc : open(q, d)
        \/ open_map(q)
        \/ \E append \in BOOLEAN : open_end(q, append)
        \/ \E c \in Proc : fork(q, c)
        \/ close(q)
        \/ \E s \in Size : seek(q, s)
        \/ \E n \in 1..BY2PG : read(q, n)
        \/ \E n \in 1..BY2PG, x \in Byte : write(q, n, x)
        \/ \E s \in Size : ftruncate(q, s)
        \/ trunc_set_size(q) \/ trunc_grow(q) \/ trunc_end(q)

FileSpec == FileInit /\ [][FileNext]_fileVars

-----------------------------------------------------------------------------
(* Properties.                                                              *)

\* Between calls, what a process reads inside the file is what was last written
\* there, by whichever process, now or while the file was open before ("Since
\* files are memory-mapped, this amounts to a memcpy()", file.c).
ReadsWritten ==
    \A q \in Proc : Idle(q) =>
        \A k \in Pos : (k < f_size[desc[q]] /\ written[k] # NONE) => View(q, k) = written[k]

\* What a write returned as written is in the server's file, inside its size and
\* in one of its blocks, so that a later open finds it (file.c: "Increase the
\* file's size if necessary").
WrittenInside ==
    \A k \in Pos : written[k] # NONE =>
        /\ k < size
        /\ ptr[k \div BY2PG] # NONE
        /\ mem[ptr[k \div BY2PG]][k % BY2PG] = written[k]

\* A write never makes the file smaller: the size it sends with ftruncate is only
\* ever an increase (file.c: "Increase the file's size if necessary").
WriteNeverShrinks ==
    [][\A q \in Proc : (At(q, "set_size") /\ pc[q].n > 0 /\ pc'[q] # pc[q]) => size' >= size]_fileVars

\* FileMap: between calls a process reads what was last written, by whichever process
\* (file.c:128 "Since files are memory-mapped, this amounts to a memcpy()"); what a
\* write returned as written is in the server's file, inside its size (file.c:197
\* "Increase the file's size if necessary"); and no write makes the file smaller.
FileKept == [](FileTypeOK /\ ReadsWritten /\ WrittenInside) /\ WriteNeverShrinks

=============================================================================
