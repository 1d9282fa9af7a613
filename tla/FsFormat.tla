------------------------------ MODULE FsFormat ------------------------------
(***************************************************************************)
(* The tool that makes the disk image (tools/fsformat.c), for the server of *)
(* FsBlocks: files and directories of the host are written one after the    *)
(* other to the next blocks, and at the end the bitmap is made from their   *)
(* number.  The image has the form of FsBlocks's disk; root is kept in      *)
(* block 1 from the start.                                                  *)
(***************************************************************************)
EXTENDS Naturals, Sequences, FiniteSets

CONSTANTS Name, NoName, NBlocks, NDIRECT, NINDIRECT, FILE2BLK, BY2BLK,
          Sizes,      \* sizes of the files that are written
          MaxDepth,   \* bound: directories inside each other
          MaxFiles,   \* bound: files and directories
          MaxOver,    \* bound: blocks taken behind the end of the disk
          Discipline  \* what the caller takes care of; see Permits

ConstantsOK == /\ Sizes \subseteq Nat /\ MaxDepth \in Nat \ {0} /\ MaxFiles \in Nat
               /\ MaxOver \in Nat /\ Discipline \subseteq {"fits"}

VARIABLES disk,      \* the array disk, and what follows it in memory
          nextbno,
          dirs,      \* the directories that are being written, with their paths
          target,    \* the file being written, and how much of it is
          given,     \* what was written
          pc         \* "next", "file", "done", "abort"

vars == <<disk, nextbno, dirs, target, given, pc>>

\* The server, booting from the image.
Fs == INSTANCE FsBlocks WITH
        cache <- disk, dirty <- {}, wq <- <<>>, opened <- {}, mode <- "serving", crashes <- 0,
        Paths <- {}, Requests <- {}, Types <- {}, MAXOPEN <- 0, MaxCrashes <- 0, Discipline <- {}

Block == 0..(NBlocks - 1)
Memory == 0..(NBlocks + MaxOver + 1)
Image == [cache |-> disk, next |-> nextbno, fault |-> "none"]
Idle == [at |-> Fs!Nowhere, left |-> 0, iblk |-> 0]

TypeOK ==
    /\ nextbno \in 3..(NBlocks + MaxOver + 2)
    /\ pc \in {"next", "file", "done", "abort"}
    /\ nextbno <= NBlocks =>
          /\ \A b \in Block : disk[b] \in Fs!Contents
          /\ pc = "next" => \A d \in 1..Len(dirs) : dirs[d].at \in Fs!Loc
          /\ pc = "file" => target \in [at : Fs!Loc, left : Nat, iblk : 0..NINDIRECT]

\* init_disk: every block is free, and 0 to 2 are taken.
Init ==
    /\ disk = [b \in Memory |-> CASE b = 1 -> Fs!Super([Fs!NoFile EXCEPT !.type = "dir"])
                                 [] b = 2 -> Fs!Bitmap(Block)
                                 [] OTHER -> Fs!Zero]
    /\ nextbno = 3
    /\ dirs = <<[at |-> Fs!Root, path |-> <<>>]>>
    /\ target = Idle /\ given = {} /\ pc = "next"

-----------------------------------------------------------------------------

\* Files that the disk has room for are given to fsformat.
Permits(rule, ok) == rule \in Discipline => ok

\* next_block counts on, also behind the last block.
next_block(I) == [I EXCEPT !.next = @ + 1]

\* The n-th block of f is bno.  The index block is taken when it is needed.
save_block_link(I, f, nblk, bno) ==
    IF nblk >= NINDIRECT THEN [I EXCEPT !.fault = "abort"]
    ELSE IF nblk < NDIRECT \/ Fs!FileAt(I, f).indirect # 0 THEN Fs!SetPtr(I, f, nblk, bno)
    ELSE Fs!SetPtr(Fs!SetFile(next_block(I), f,
                              [Fs!FileAt(I, f) EXCEPT !.indirect = I.next]), f, nblk, bno)

make_link_block(I, dirf, nblk) ==
    LET L == save_block_link(next_block(I), dirf, nblk, I.next) IN
        IF L.fault # "none" THEN L
        ELSE Fs!SetFile(L, dirf, [Fs!FileAt(L, dirf) EXCEPT !.size = @ + BY2BLK])

\* create_file: the first unused File in the blocks of the directory, or the
\* first of a new block.
create_file(dirf) ==
    LET nblk == Fs!NBlocksOf(Fs!FileAt(Image, dirf).size)
        with == {i \in 0..(nblk - 1) : Fs!Named(Image, Fs!Ptr(Image, dirf, i), NoName) # {}}
        b == Fs!Ptr(Image, dirf, Fs!FirstOf(with))
    IN  IF with # {} THEN [I |-> Image, at |-> <<b, Fs!FirstOf(Fs!Named(Image, b, NoName))>>]
        ELSE [I |-> make_link_block(Image, dirf, nblk), at |-> <<nextbno, 0>>]

\* The image after a step.  A failed assertion ends the program; a store behind
\* the array may end it or go to the memory there.
Apply(I, at) ==
    /\ nextbno <= NBlocks + MaxOver
    /\ Permits("fits", I.next <= NBlocks)
    /\ \/ I.fault = "none" /\ disk' = I.cache /\ nextbno' = I.next /\ pc' = at
       \/ (I.fault = "abort" \/ I.next > NBlocks)
          /\ pc' = "abort" /\ UNCHANGED <<disk, nextbno>>

Dirf == dirs[Len(dirs)]

\* An entry of the directory that is being written; the host has no two of one name.
Entry(name, type, size) ==
    LET c == create_file(Dirf.at)
        f == [Fs!NoFile EXCEPT !.name = name, !.type = type, !.size = size]
        path == Append(Dirf.path, name)
    IN  /\ pc = "next" /\ Cardinality(given) < MaxFiles
        /\ \A g \in given : g.path # path
        /\ Apply(IF c.I.fault # "none" THEN c.I ELSE Fs!SetFile(c.I, c.at, f),
                 IF type = "reg" THEN "file" ELSE "next")
        /\ given' = given \cup {[path |-> path, type |-> type, size |-> size]}

\* write_file creates the entry, and then reads block after block.
write_file(name, size) ==
    /\ Entry(name, "reg", size)
    /\ target' = [at |-> create_file(Dirf.at).at, left |-> size, iblk |-> 0]
    /\ UNCHANGED dirs

\* Faulty variant: the link is made before the block is taken.
write_file_block_early ==
    /\ pc = "file" /\ target.left > 0
    /\ LET L == save_block_link(Image, target.at, target.iblk, nextbno) IN
           Apply([next_block(L) EXCEPT !.cache[L.next] = Fs!Data], "file")
    /\ target' = [target EXCEPT !.iblk = @ + 1,
                    !.left = IF @ > BY2BLK THEN @ - BY2BLK ELSE 0]
    /\ UNCHANGED <<dirs, given>>

write_file_block ==
    /\ pc = "file" /\ target.left > 0
    /\ LET R == [next_block(Image) EXCEPT !.cache[nextbno] = Fs!Data] IN
           Apply(save_block_link(R, target.at, target.iblk, nextbno), "file")
    /\ target' = [target EXCEPT !.iblk = @ + 1,
                    !.left = IF @ > BY2BLK THEN @ - BY2BLK ELSE 0]
    /\ UNCHANGED <<dirs, given>>

write_file_end ==
    /\ pc = "file" /\ target.left = 0
    /\ pc' = "next" /\ target' = Idle
    /\ UNCHANGED <<disk, nextbno, dirs, given>>

\* write_directory creates the entry, writes what is inside, and returns.
write_directory(name) ==
    /\ Len(dirs) < MaxDepth
    /\ Entry(name, "dir", 0)
    /\ dirs' = Append(dirs, [at |-> create_file(Dirf.at).at, path |-> Append(Dirf.path, name)])
    /\ UNCHANGED target

write_directory_end ==
    /\ pc = "next" /\ Len(dirs) > 1
    /\ dirs' = SubSeq(dirs, 1, Len(dirs) - 1)
    /\ UNCHANGED <<disk, nextbno, target, given, pc>>

\* flush_bitmap and finish_fs, which writes the blocks of the disk and no more.
flush_bitmap ==
    /\ pc = "next" /\ Len(dirs) = 1
    /\ disk' = [disk EXCEPT ![2] = Fs!Bitmap(@.free \ (0..(nextbno - 1)))]
    /\ pc' = "done"
    /\ UNCHANGED <<nextbno, dirs, target, given>>

Next ==
    \/ \E name \in Name, size \in Sizes : write_file(name, size)
    \/ \E name \in Name : write_directory(name)
    \/ write_file_block \/ write_file_end \/ write_directory_end
    \/ flush_bitmap

Spec == Init /\ [][Next]_vars

-----------------------------------------------------------------------------
(* Properties.                                                              *)

\* The image is sound in the sense the server keeps up (FsBlocks), and its bitmap
\* is exact: every block that is used is on the disk, and free is what no file,
\* directory or index uses.
ImageSound ==
    pc = "done" =>
        /\ \A x \in Fs!AllRefs(disk) : x[3] \in Block
        /\ Fs!Sound(disk)
        /\ disk[2].free = (Block \ 0..2) \ {x[3] : x \in Fs!AllRefs(disk)}

\* The server, walking the image with its own walk_path, finds everything that
\* was written, with its type and size and with all its data, and never follows a
\* pointer to a free block.
ServerFinds ==
    pc = "done" => \A g \in given :
        LET W == Fs!walk_path(Fs!Now, g.path)
            f == Fs!FileAt(W, W.at)
        IN  /\ W.r = "ok" /\ ~W.panic
            /\ f.type = g.type
            /\ g.type = "reg" =>
                 /\ f.size = g.size
                 /\ \A n \in 0..(NINDIRECT - 1) : n * BY2BLK < g.size =>
                      disk[Fs!Ptr(W, W.at, n)] = Fs!Data

=============================================================================
