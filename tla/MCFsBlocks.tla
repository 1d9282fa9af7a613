----------------------------- MODULE MCFsBlocks -----------------------------
(***************************************************************************)
(* FsBlocks for TLC: files in the root alone, or in a directory too; and    *)
(* the server at work while the power stays on, when a write reaches the    *)
(* disk at once.  MCFileServer has the power failures.                      *)
(***************************************************************************)
EXTENDS FsBlocks

FlatPaths == {<<"a">>, <<"b">>}

DeepPaths == {<<"a">>, <<"b">>, <<"a", "b">>}

PowerOnNext ==
    \/ \E path \in Paths : \/ serve_open(path) \/ serve_remove(path)
                          \/ \E type \in Types : serve_create(path, type)
    \/ \E f \in opened : \/ \E n \in 0..(NINDIRECT - 1) : serve_map(f, n) \/ serve_dirty(f, n)
                       \/ \E size \in Sizes : serve_set_size(f, size)
                       \/ serve_close(f)
    \/ fs_init

PowerOnSpec == Init /\ [][PowerOnNext]_vars

=============================================================================
