------------------------------ MODULE FsBlocks ------------------------------
(***************************************************************************)
(* The file system (fs/fs.c, fs/ide.c) under the requests of fs/serv.c.     *)
(*                                                                         *)
(* A block is on the disk and, once it has been read, in the cache, where   *)
(* it stays.  The bitmap (block 2), the root's File (in block 1), the       *)
(* directories, the index blocks and the data are all found there; a File   *)
(* is named by its place <<block, slot>>.  The server answers one request   *)
(* after the other; a request changes the cache and queues the blocks it    *)
(* writes, in order and with their contents at that moment.  Writes reach   *)
(* the disk one by one, and between two of them the power may fail.         *)
(*                                                                         *)
(* The functions of fs.c are operators from one state of the server to the  *)
(* next, with their return value in the field r.                            *)
(***************************************************************************)
EXTENDS Naturals, Sequences, FiniteSets

CONSTANTS Name,        \* names of files
          NBlocks,     \* blocks of the disk (super->s_nblocks)
          NDIRECT, NINDIRECT,
          FILE2BLK,    \* files of a directory block
          BY2BLK,      \* bytes of a block
          Sizes,       \* sizes a client asks for
          Paths,       \* paths the clients use
          Requests,    \* requests the clients make
          Types,       \* types of the files they create
          MAXOPEN,     \* files open at a time
          MaxCrashes,  \* bound: power failures
          Discipline,  \* what the clients are assumed to do
          NoName       \* the empty name

\* "fresh": no directory or index block is made from a block whose old contents
\*    are still in the cache;
\* "kept": a file that is open, or that holds one, is not removed;
\* "inside": a client maps blocks inside the size of the file;
\* "files": a client sets the size of files, not of directories;
\* "grow": nothing is removed or made smaller;
\* "booted": the power does not fail in check_write_block.
AllRules == {"fresh", "kept", "inside", "files", "grow", "booted"}
AllRequests == {"open", "create", "map", "set_size", "dirty", "close", "remove", "sync"}

ASSUME LayoutAssumption ==
    /\ NBlocks \in Nat /\ NBlocks > 3 /\ NDIRECT \in Nat \ {0}
    /\ NINDIRECT \in Nat /\ NINDIRECT >= NDIRECT
    /\ FILE2BLK \in Nat \ {0} /\ BY2BLK \in Nat \ {0}
ASSUME RequestAssumption ==
    /\ Sizes \subseteq 0..(NINDIRECT * BY2BLK)
    /\ Requests \subseteq AllRequests /\ Types \subseteq {"reg", "dir"} /\ MAXOPEN \in Nat
    /\ Paths \subseteq Seq(Name) /\ MaxCrashes \in Nat /\ Discipline \subseteq AllRules
    /\ NoName \notin Name

Block == 0..(NBlocks - 1)
Slot == 0..(FILE2BLK - 1)
Loc == Block \X Slot
Root == <<1, 0>>
Nowhere == <<0, 0>>

File == [name : Name \cup {NoName}, size : Nat, type : {"reg", "dir"},
         direct : [0..(NDIRECT - 1) -> Block], indirect : Block, dir : Loc]
NoFile == [name |-> NoName, size |-> 0, type |-> "reg",
           direct |-> [n \in 0..(NDIRECT - 1) |-> 0], indirect |-> 0, dir |-> Nowhere]

\* Contents of blocks.  A cleared page can be read as anything.
Zero == [kind |-> "zero"]
Data == [kind |-> "data"]
Oops == [kind |-> "oops"]
Unmapped == [kind |-> "unmapped"]
Super(root) == [kind |-> "super", root |-> root]
Bitmap(free) == [kind |-> "bitmap", free |-> free]
Dir(files) == [kind |-> "dir", files |-> files]
NoPtrs == [n \in 0..(NINDIRECT - 1) |-> 0]
Index(ptr) == IF ptr = NoPtrs THEN Zero ELSE [kind |-> "index", ptr |-> ptr]

Files(c) == IF c.kind = "dir" THEN c.files ELSE [s \in Slot |-> NoFile]
Ptrs(c) == IF c.kind = "index" THEN c.ptr ELSE NoPtrs

VARIABLES disk,     \* the blocks on the disk
          cache,    \* the blocks in memory, or Unmapped
          dirty,    \* blocks mapped PTE_DIRTY
          wq,       \* writes on their way to the disk
          opened,   \* opentab: the places of the files that are open
          mode,     \* "down", "serving", "panic" or "stale"
          crashes   \* power failures so far

vars == <<disk, cache, dirty, wq, opened, mode, crashes>>

Contents == {Zero, Data, Oops, Unmapped} \cup [kind : {"super"}, root : File]
    \cup [kind : {"bitmap"}, free : SUBSET Block]
    \cup [kind : {"dir"}, files : [Slot -> File]]
    \cup [kind : {"index"}, ptr : [0..(NINDIRECT - 1) -> Block]]

TypeOK ==
    /\ \A b \in Block : disk[b] \in Contents /\ cache[b] \in Contents
    /\ dirty \subseteq Block /\ \A b \in dirty : cache[b] # Unmapped
    /\ \A n \in 1..Len(wq) : wq[n][1] \in Block /\ wq[n][2] \in Contents
    /\ opened \subseteq Loc
    /\ mode \in {"down", "serving", "panic", "stale"}
    /\ crashes \in 0..MaxCrashes

\* An image with an empty root, or with one file of NDIRECT blocks.
Init ==
    /\ disk \in
         {[b \in Block |-> CASE b = 1 -> Super([NoFile EXCEPT !.type = "dir"])
                             [] b = 2 -> Bitmap(3..(NBlocks - 1))
                             [] OTHER -> Zero],
          [b \in Block |->
               CASE b = 1 -> Super([NoFile EXCEPT !.type = "dir", !.size = BY2BLK,
                                                  !.direct[0] = 3])
                 [] b = 2 -> Bitmap((4 + NDIRECT)..(NBlocks - 1))
                 [] b = 3 -> Dir([s \in Slot |-> IF s # 0 THEN NoFile
                                ELSE [NoFile EXCEPT !.name = CHOOSE n \in Name : TRUE,
                                                    !.size = NDIRECT * BY2BLK - 1,
                                                    !.direct = [n \in 0..(NDIRECT - 1) |-> 4 + n]]])
                 [] b \in 4..(3 + NDIRECT) -> Data
                 [] OTHER -> Zero]}
    /\ cache = [b \in Block |-> Unmapped]
    /\ dirty = {} /\ wq = <<>> /\ opened = {}
    /\ mode = "down" /\ crashes = 0

-----------------------------------------------------------------------------
(* The block layer.                                                        *)

\* The server when a request arrives.
Now == [cache |-> cache, dirty |-> dirty, wr |-> <<>>, r |-> "ok", at |-> Nowhere,
        panic |-> FALSE, stale |-> FALSE]

Ret(S, r) == [S EXCEPT !.r = r]

\* "if ((r = ...) < 0) return r;": what comes after a call is done if it succeeded,
\* or, in a search, if it found nothing.
OnSuccess(S, Rest(_)) == IF S.r # "ok" THEN S ELSE Rest(S)
OnMissing(S, Rest(_)) == IF S.r # "E_NOT_FOUND" THEN S ELSE Rest(S)

Free(S) == S.cache[2].free
block_is_free(S, b) == b \in Free(S)

write_block(S, b) == [S EXCEPT !.wr = Append(@, <<b, S.cache[b]>>)]

\* A pointer to a free block makes the server panic.
read_block(S, b) ==
    [S EXCEPT !.r = "ok", !.panic = @ \/ block_is_free(S, b),
              !.cache[b] = IF @ = Unmapped THEN disk[b] ELSE @]

free_block(S, b) == IF b = 0 THEN S ELSE [S EXCEPT !.cache[2].free = @ \cup {b}]

dirty_block(S, b) ==
    IF S.cache[b] = Unmapped THEN Ret(S, "E_NOT_FOUND")
    ELSE [S EXCEPT !.dirty = @ \cup {b}, !.r = "ok"]

\* Faulty variant: the bitmap is written later, with the other blocks.
alloc_block_lazy(S) ==
    LET b == CHOOSE x \in Free(S) \ {0, 1, 2} :
                 \A y \in Free(S) \ {0, 1, 2} : x <= y
        M == [S EXCEPT !.cache[2].free = @ \ {b}]
    IN  IF Free(S) \subseteq {0, 1, 2} THEN Ret(S, "E_NO_DISK")
        ELSE [M EXCEPT !.r = "ok", !.at = <<b, 0>>,
                       !.cache[b] = IF @ = Unmapped THEN Zero ELSE @]

\* alloc_block_num and map_block: the first free block, marked used on the disk
\* at once, and mapped.  A block that is in the cache keeps its contents.
alloc_block(S) ==
    LET b == CHOOSE x \in Free(S) \ {0, 1, 2} :
                 \A y \in Free(S) \ {0, 1, 2} : x <= y
        M == [S EXCEPT !.cache[2].free = @ \ {b}]
    IN  IF Free(S) \subseteq {0, 1, 2} THEN Ret(S, "E_NO_DISK")
        ELSE [write_block(M, 2) EXCEPT !.r = "ok", !.at = <<b, 0>>,
                  !.cache[b] = IF @ = Unmapped THEN Zero ELSE @]

-----------------------------------------------------------------------------
(* Files.                                                                  *)

FileAt(S, f) == IF f = Root THEN S.cache[1].root ELSE Files(S.cache[f[1]])[f[2]]

SetFile(S, f, file) ==
    IF f = Root THEN [S EXCEPT !.cache[1] = Super(file)]
    ELSE [S EXCEPT !.cache[f[1]] = Dir([Files(@) EXCEPT ![f[2]] = file])]

\* *ptr, for the slot that file_block_walk finds.
Ptr(S, f, n) == IF n < NDIRECT THEN FileAt(S, f).direct[n]
                ELSE Ptrs(S.cache[FileAt(S, f).indirect])[n]

SetPtr(S, f, n, b) ==
    IF n < NDIRECT THEN SetFile(S, f, [FileAt(S, f) EXCEPT !.direct[n] = b])
    ELSE [S EXCEPT !.cache[FileAt(S, f).indirect] = Index([Ptrs(@) EXCEPT ![n] = b])]

file_block_walk(S, f, n, alloc) ==
    IF n < NDIRECT THEN Ret(S, "ok")
    ELSE IF n >= NINDIRECT THEN Ret(S, "E_INVAL")
    ELSE IF FileAt(S, f).indirect # 0 THEN read_block(S, FileAt(S, f).indirect)
    ELSE IF ~alloc THEN Ret(S, "E_NOT_FOUND")
    ELSE OnSuccess(alloc_block(S), LAMBDA A :
             LET b == A.at[1]
                 B == [A EXCEPT !.stale = @ \/ A.cache[b] # Zero]
             IN  read_block(SetFile(B, f, [FileAt(A, f) EXCEPT !.indirect = b]), b))

file_map_block(S, f, n, alloc) ==
    OnSuccess(file_block_walk(S, f, n, alloc), LAMBDA W :
        IF Ptr(W, f, n) # 0 THEN W
        ELSE IF ~alloc THEN Ret(W, "E_NOT_FOUND")
        ELSE OnSuccess(alloc_block(W), LAMBDA A :
            LET b == A.at[1]
                old == FileAt(A, f).type = "dir" /\ A.cache[b] # Zero
            IN  SetPtr([A EXCEPT !.stale = @ \/ old], f, n, b)))

\* Faulty variant: the pointer to a freed block is left in the file.
file_clear_block_kept(S, f, n) ==
    OnSuccess(file_block_walk(S, f, n, FALSE), LAMBDA W :
        IF Ptr(W, f, n) = 0 THEN W ELSE free_block(W, Ptr(W, f, n)))

file_clear_block(S, f, n) ==
    OnSuccess(file_block_walk(S, f, n, FALSE), LAMBDA W :
        IF Ptr(W, f, n) = 0 THEN W
        ELSE SetPtr(free_block(W, Ptr(W, f, n)), f, n, 0))

file_get_block(S, f, n) ==
    OnSuccess(file_map_block(S, f, n, TRUE), LAMBDA M : read_block(M, Ptr(M, f, n)))

file_dirty(S, f, n) ==
    OnSuccess(file_map_block(S, f, n, FALSE), LAMBDA M : dirty_block(M, Ptr(M, f, n)))

NBlocksOf(size) == size \div BY2BLK

\* The blocks of f below its size that are dirty, in order.
file_flush(S, f) ==
    LET last == NBlocksOf(FileAt(S, f).size) + 1
        after[n \in 0..(NINDIRECT + 1)] ==
            IF n = 0 THEN S
            ELSE OnSuccess(file_map_block(after[n - 1], f, n - 1, FALSE), LAMBDA M :
                     IF Ptr(M, f, n - 1) \in M.dirty THEN write_block(M, Ptr(M, f, n - 1))
                     ELSE M)
    IN  Ret(after[last], "ok")

\* Faulty variant: the last block of the old size is forgotten.
file_truncate_short(S, f, newsize) ==
    LET old == NBlocksOf(FileAt(S, f).size)
        new == IF newsize = 0 THEN 0 ELSE NBlocksOf(newsize) + 1
        clear[n \in 0..(NINDIRECT + 1)] ==
            IF n <= new THEN S ELSE file_clear_block(clear[n - 1], f, n - 1)
        C == clear[old]
        F == FileAt(C, f)
        D == IF new <= NDIRECT
             THEN SetFile(free_block(C, F.indirect), f, [F EXCEPT !.indirect = 0])
             ELSE C
    IN  Ret(SetFile(D, f, [FileAt(D, f) EXCEPT !.size = newsize]), "ok")

\* The blocks between the new and the old size are freed, and the index block if
\* it is not needed any more.
file_truncate(S, f, newsize) ==
    LET old == NBlocksOf(FileAt(S, f).size) + 1
        new == IF newsize = 0 THEN 0 ELSE NBlocksOf(newsize) + 1
        clear[n \in 0..(NINDIRECT + 1)] ==
            IF n <= new THEN S ELSE file_clear_block(clear[n - 1], f, n - 1)
        C == clear[old]
        F == FileAt(C, f)
        D == IF new <= NDIRECT
             THEN SetFile(free_block(C, F.indirect), f, [F EXCEPT !.indirect = 0])
             ELSE C
    IN  Ret(SetFile(D, f, [FileAt(D, f) EXCEPT !.size = newsize]), "ok")

flush_dir(S, f) == IF FileAt(S, f).dir = Nowhere THEN S
                   ELSE file_flush(S, FileAt(S, f).dir)

file_set_size(S, f, newsize) ==
    LET T == IF FileAt(S, f).size > newsize THEN file_truncate(S, f, newsize) ELSE S
    IN  flush_dir(SetFile(T, f, [FileAt(T, f) EXCEPT !.size = newsize]), f)

file_close(S, f) == flush_dir(file_flush(S, f), f)

\* Every dirty block, in order; the dirty bits stay.
fs_sync(S) ==
    LET after[n \in 0..NBlocks] ==
            IF n = 0 THEN S
            ELSE LET P == after[n - 1]
                 IN  IF n - 1 \in S.dirty THEN write_block(P, n - 1) ELSE P
    IN  Ret(after[NBlocks], "ok")

-----------------------------------------------------------------------------
(* Directories.                                                            *)

\* The first slot of block b whose file has this name, if there is one.
Named(S, b, name) == {s \in Slot : Files(S.cache[b])[s].name = name}
FirstOf(slots) == CHOOSE s \in slots : \A t \in slots : s <= t

\* The blocks of dir are searched in order for a name; a block that is missing is
\* allocated on the way.  The place found is in the field at.
Search(S, dir, name) ==
    LET n == NBlocksOf(FileAt(S, dir).size)
        after[i \in 0..NINDIRECT] ==
            IF i = 0 THEN Ret(S, "E_NOT_FOUND")
            ELSE OnMissing(after[i - 1], LAMBDA P :
                     OnSuccess(file_get_block(P, dir, i - 1), LAMBDA G :
                         LET b == Ptr(G, dir, i - 1)
                         IN  IF Named(G, b, name) = {} THEN Ret(G, "E_NOT_FOUND")
                             ELSE [G EXCEPT !.at = <<b, FirstOf(Named(G, b, name))>>]))
    IN  after[n]

dir_lookup(S, dir, name) ==
    OnSuccess(Search(S, dir, name), LAMBDA L :
        SetFile(L, L.at, [FileAt(L, L.at) EXCEPT !.dir = dir]))

\* The directory has grown already when its new block cannot be had.
dir_alloc_file(S, dir) ==
    LET n == NBlocksOf(FileAt(S, dir).size)
        Grown(L) == SetFile(L, dir, [FileAt(L, dir) EXCEPT !.size = @ + BY2BLK])
    IN  OnMissing(Search(S, dir, NoName), LAMBDA L :
            OnSuccess(file_get_block(Grown(L), dir, n), LAMBDA G :
                [G EXCEPT !.at = <<Ptr(G, dir, n), 0>>]))

\* From the root, name by name: the file at the end of the path, or the reason why
\* there is none.  walk_path's *pdir is left in at when only the last name is missing.
walk_path(S, path) ==
    LET Found(L, pdir) ==
            IF L.r = "ok" THEN L
            ELSE [L EXCEPT !.at = IF L.r = "E_NOT_FOUND" THEN pdir ELSE Nowhere]
        after[i \in 0..Len(path)] ==
            IF i = 0 THEN [S EXCEPT !.at = Root]
            ELSE OnSuccess(after[i - 1], LAMBDA P :
                     IF FileAt(P, P.at).type # "dir"
                     THEN [P EXCEPT !.r = "E_NOT_FOUND", !.at = Nowhere]
                     ELSE Found(dir_lookup(P, P.at, path[i]),
                                IF i = Len(path) THEN P.at ELSE Nowhere))
    IN  after[Len(path)]

file_create(S, path) ==
    LET Refused(W) == IF W.r = "ok" THEN Ret(W, "E_FILE_EXISTS") ELSE W
    IN  OnMissing(Refused(walk_path(S, path)), LAMBDA W :
            IF W.at = Nowhere THEN W
            ELSE OnSuccess(dir_alloc_file(W, W.at), LAMBDA A :
                SetFile(A, A.at, [FileAt(A, A.at) EXCEPT !.name = path[Len(path)]])))

file_remove(S, path) ==
    OnSuccess(walk_path(S, path), LAMBDA W :
        LET T == file_truncate(W, W.at, 0)
            Z == SetFile(T, W.at, [FileAt(T, W.at) EXCEPT !.name = NoName])
        IN  file_close(Z, W.at))

-----------------------------------------------------------------------------
(* Requests.                                                               *)

\* A request of this kind is received.
Received(req) == mode = "serving" /\ wq = <<>> /\ req \in Requests

\* The writes reach the disk one at a time; after the last power failure nobody
\* can tell, and they are made at once.
Write(wr) ==
    IF crashes < MaxCrashes THEN wq' = wr /\ UNCHANGED disk
    ELSE LET of(b) == {n \in 1..Len(wr) : wr[n][1] = b}
             last(b) == CHOOSE n \in of(b) : \A m \in of(b) : m <= n
         IN  /\ disk' = [b \in Block |-> IF of(b) = {} THEN disk[b] ELSE wr[last(b)][2]]
             /\ wq' = <<>>

\* The request ends in server state S.
Serve(S) ==
    /\ "fresh" \in Discipline => ~S.stale
    /\ cache' = S.cache /\ dirty' = S.dirty
    /\ Write(S.wr)
    /\ mode' = IF S.panic THEN "panic" ELSE IF S.stale THEN "stale" ELSE "serving"
    /\ UNCHANGED crashes

serve_open(path) ==
    LET W == walk_path(Now, path)
    IN  /\ Received("open") /\ Cardinality(opened) < MAXOPEN
        /\ opened' = IF W.r = "ok" THEN opened \cup {W.at} ELSE opened
        /\ Serve(W)

serve_create(path, type) ==
    /\ Received("create")
    /\ Serve(OnSuccess(file_create(Now, path), LAMBDA C :
                 SetFile(C, C.at, [FileAt(C, C.at) EXCEPT !.type = type])))
    /\ UNCHANGED opened

\* The client has the block mapped from now on and writes to it.
serve_map(f, n) ==
    /\ Received("map") /\ f \in opened
    /\ "inside" \in Discipline => n * BY2BLK < FileAt(Now, f).size
    /\ Serve(OnSuccess(file_get_block(Now, f, n), LAMBDA G :
                 IF FileAt(Now, f).type # "reg" THEN G
                 ELSE [G EXCEPT !.cache[Ptr(G, f, n)] = Data]))
    /\ UNCHANGED opened

serve_set_size(f, size) ==
    /\ Received("set_size") /\ f \in opened
    /\ "files" \in Discipline => FileAt(Now, f).type = "reg"
    /\ "grow" \in Discipline => size >= FileAt(Now, f).size
    /\ Serve(file_set_size(Now, f, size))
    /\ UNCHANGED opened

serve_dirty(f, n) ==
    /\ Received("dirty") /\ f \in opened
    /\ Serve(file_dirty(Now, f, n))
    /\ UNCHANGED opened

serve_close(f) ==
    /\ Received("close") /\ f \in opened
    /\ Serve(file_close(Now, f))
    /\ opened' = opened \ {f}

serve_remove(path) ==
    LET W == walk_path(Now, path)
    IN  /\ Received("remove") /\ "grow" \notin Discipline
        /\ "kept" \in Discipline =>
               /\ W.at \notin opened
               /\ \A f \in opened : FileAt(Now, f).dir # W.at
        /\ Serve(file_remove(Now, path))
        /\ UNCHANGED opened

serve_sync ==
    /\ Received("sync")
    /\ Serve(fs_sync(Now))
    /\ UNCHANGED opened

\* ide_write: the next block reaches the disk.
ide_write ==
    /\ wq # <<>>
    /\ disk' = [disk EXCEPT ![wq[1][1]] = wq[1][2]]
    /\ wq' = Tail(wq)
    /\ UNCHANGED <<cache, dirty, opened, mode, crashes>>

\* read_super, check_write_block, which overwrites the superblock and restores it,
\* and read_bitmap.
fs_init ==
    /\ mode = "down"
    /\ IF disk[1].kind # "super" \/ disk[2].free \cap {0, 1, 2} # {}
       THEN mode' = "panic" /\ UNCHANGED <<disk, cache, wq>>
       ELSE /\ cache' = [b \in Block |-> CASE b \in {0, 1} -> disk[1]
                                           [] b = 2 -> disk[2]
                                           [] OTHER -> Unmapped]
            /\ Write(<<<<1, Oops>>, <<1, disk[1]>>>>)
            /\ mode' = "serving"
    /\ UNCHANGED <<dirty, opened, crashes>>

\* The machine is switched off; what has not been written is lost.
power_failure ==
    /\ mode = "serving" /\ crashes < MaxCrashes
    /\ "booted" \in Discipline => disk[1] # Oops /\ \A n \in 1..Len(wq) : wq[n][2] # Oops
    /\ mode' = "down" /\ crashes' = crashes + 1
    /\ cache' = [b \in Block |-> Unmapped]
    /\ dirty' = {} /\ wq' = <<>> /\ opened' = {}
    /\ UNCHANGED disk

Next ==
    \/ \E path \in Paths : \/ serve_open(path) \/ serve_remove(path)
                          \/ \E type \in Types : serve_create(path, type)
    \/ \E f \in opened : \/ \E n \in 0..(NINDIRECT - 1) : serve_map(f, n) \/ serve_dirty(f, n)
                       \/ \E size \in Sizes : serve_set_size(f, size)
                       \/ serve_close(f)
    \/ serve_sync
    \/ ide_write
    \/ fs_init
    \/ power_failure

Spec == Init /\ [][Next]_vars

-----------------------------------------------------------------------------
(* Properties                                                              *)

\* The files that lead to blocks, of the blocks in `blocks`: the root, and the
\* named entries of directory blocks that are reached.
FilesIn(blocks, c) == {Root} \cup {f \in blocks \X Slot :
                           c[f[1]].kind = "dir" /\ c[f[1]].files[f[2]].name # NoName}

FileIn(c, f) == IF f = Root THEN c[1].root ELSE c[f[1]].files[f[2]]

\* The blocks a file refers to, with the place of the reference.
Refs(c, f) ==
    LET F == FileIn(c, f)
        ind == F.indirect
    IN  {<<f, n, F.direct[n]>> : n \in {m \in 0..(NDIRECT - 1) : F.direct[m] # 0}}
        \cup (IF ind = 0 THEN {} ELSE {<<f, NINDIRECT, ind>>})
        \cup (IF ind = 0 \/ c[ind].kind # "index" THEN {}
              ELSE {<<f, n, c[ind].ptr[n]>> : n \in {m \in 0..(NINDIRECT - 1) : c[ind].ptr[m] # 0}})

\* The blocks found by following directories from the root, as many times as
\* there are blocks.
Reached(c) ==
    LET grow[n \in 0..NBlocks] ==
            IF n = 0 THEN {}
            ELSE LET P == grow[n - 1]
                     dirs == {f \in FilesIn(P, c) : FileIn(c, f).type = "dir"}
                 IN  P \cup {ref[3] : ref \in UNION {Refs(c, f) : f \in dirs}}
    IN  grow[NBlocks]

AllRefs(c) == UNION {Refs(c, f) : f \in FilesIn(Reached(c), c)}

\* No block belongs to two files, and none that belongs to a file is free.
Sound(c) ==
    /\ \A x, y \in AllRefs(c) : x[3] = y[3] => x = y
    /\ \A x \in AllRefs(c) : x[3] > 2 /\ x[3] \notin c[2].free

\* What the server sees: cached blocks, and behind them the disk.
View == [b \in Block |-> IF cache[b] = Unmapped THEN disk[b] ELSE cache[b]]

\* Through every sequence of requests, also ones that fail for want of blocks in
\* the middle, the file system in memory is sound: what is free belongs to nobody,
\* and nobody shares a block.
MemorySound == mode = "serving" /\ disk[1] # Oops => Sound(View)

\* A slot that is free has no size and no blocks: the next file that is created
\* there (file_create sets no more than the name) starts empty.
FreeSlotEmpty ==
    mode = "serving" /\ disk[1] # Oops =>
        \A f \in Reached(View) \X Slot :
            View[f[1]].kind = "dir" /\ View[f[1]].files[f[2]].name = NoName =>
                /\ View[f[1]].files[f[2]].size = 0
                /\ Refs(View, f) = {}

\* The server never panics on a pointer it has written itself.
NoPanic == mode # "panic"

\* Whenever the power fails, the file system on the disk is sound: blocks are
\* marked used on the disk before anything on the disk refers to them.
DiskSound == disk[1] # Oops => Sound(disk)

\* A directory or index block starts out empty (fs.c:536, "a free File structure").
NewBlocksEmpty == mode # "stale"

\* An open file has a name: it has not been removed under its client
\* (serv.c:13, "mapped descriptor for open file").
OpenFilesLive == mode = "serving" => \A f \in opened : FileAt(Now, f).name # NoName \/ f = Root

\* A block without f_dir, which is "valid only in memory" (fs.h:33).
Lasting(c) == IF c.kind = "dir"
              THEN Dir([s \in Slot |-> [c.files[s] EXCEPT !.dir = Nowhere]]) ELSE c

\* A sync writes what the cache has and the disk has not (fs.c:773, "Sync the entire
\* file system.  A big hammer.").
SyncWritesAll ==
    [][serve_sync => \A b \in Block \ {0} :
           cache[b] # Unmapped => \/ Lasting(cache[b]) = Lasting(disk[b])
                                  \/ \E n \in 1..Len(wq') : wq'[n] = <<b, cache[b]>>]_vars

\* What the server has in memory is a sound file system, and no pointer in it leads
\* the server to panic (read_block, alloc_block, free_block).
ServesSoundly == MemorySound /\ NoPanic

=============================================================================
