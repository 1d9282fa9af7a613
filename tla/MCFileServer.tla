---------------------------- MODULE MCFileServer ----------------------------
(***************************************************************************)
(* The file server and its disk, for TLC: requests and the table of open    *)
(* files (FsServ), a power failure while files grow (FsBlocks), and the     *)
(* image that fsformat builds for it (FsFormat).  A behaviour is about one  *)
(* of the three, and the variables of the others keep one value.            *)
(***************************************************************************)
EXTENDS FsServ

VARIABLES about,       \* "requests", "failure" or "image"
          disk, cache, dirty, wq, opened, mode, crashes,
          image, nextbno, dirs, target, given, pc

\* Two names in the root; files grow to two blocks, and the power fails once.
Blocks == INSTANCE FsBlocks WITH
            Name <- {"a", "b"}, NBlocks <- 7, NDIRECT <- 1, NINDIRECT <- 2, FILE2BLK <- 2,
            BY2BLK <- 2, Sizes <- {4}, Paths <- {<<>>, <<"a">>, <<"b">>}, Types <- {"reg"},
            Requests <- {"open", "create", "map", "set_size", "dirty", "close", "sync"},
            MAXOPEN <- 1, MaxCrashes <- 1, NoName <- "",
            Discipline <- {"inside", "files", "grow", "booted"}

\* Three names in two levels; files of no, one and two blocks, and one that is too
\* large; directories of more than one block, and images that fill the disk.
Fmt == INSTANCE FsFormat WITH
            Name <- {"a", "b", "c"}, NBlocks <- 12, NDIRECT <- 1, NINDIRECT <- 2,
            FILE2BLK <- 2, BY2BLK <- 2, NoName <- "", Sizes <- {0, 1, 4, 6},
            MaxDepth <- 2, MaxFiles <- 4, MaxOver <- 0, Discipline <- {"fits"}, disk <- image

ASSUME FormatAssumption == Fmt!ConstantsOK

diskVars == <<disk, cache, dirty, wq, opened, mode, crashes>>
imageVars == <<image, nextbno, dirs, target, given, pc>>

NoDisk == disk = <<>> /\ cache = <<>> /\ dirty = {} /\ wq = <<>> /\ opened = {}
          /\ mode = "down" /\ crashes = 0
NoImage ==
    image = <<>> /\ nextbno = 0 /\ dirs = <<>> /\ target = <<>> /\ given = {} /\ pc = "none"

PartsInit ==
    /\ Init
    /\ \/ about = "requests" /\ NoDisk /\ NoImage
       \/ about = "failure" /\ Blocks!Init /\ NoImage
       \/ about = "image" /\ NoDisk /\ Fmt!Init

PartsNext ==
    \/ about = "requests" /\ Next /\ UNCHANGED <<about, diskVars, imageVars>>
    \/ about = "failure" /\ Blocks!Next /\ UNCHANGED <<about, vars, imageVars>>
    \/ about = "image" /\ Fmt!Next /\ UNCHANGED <<about, vars, diskVars>>

\* The fairness of FsServ; its environments do nothing in the other parts.
PartsSpec ==
    /\ PartsInit /\ [][PartsNext]_<<about, vars, diskVars, imageVars>>
    /\ WF_vars(about = "requests" /\ Server)
    /\ \A c \in Client : WF_vars(about = "requests" /\ Library(c))

-----------------------------------------------------------------------------
\* FsBlocks: as long as nothing is removed or made smaller, the file system on the
\* disk is sound whenever the power fails (alloc_block writes the bitmap before
\* anything that refers to the block), and the server comes up again from it.
SoundAfterFailure ==
    about = "failure" => Blocks!TypeOK /\ Blocks!DiskSound /\ Blocks!NoPanic

\* FsFormat: in a finished image every block of a file is on the disk and belongs to no
\* other, those of no file and no others are free, and the server's walk_path finds every
\* file that fsformat was given, with its size and its blocks (fsformat.c main,
\* flush_bitmap, write_file).
ImageServes == about = "image" => Fmt!TypeOK /\ Fmt!ImageSound /\ Fmt!ServerFinds

=============================================================================
